---- MODULE Spec2Model ----
(***************************************************************************)
(* A state-machine model of the CoFound web client (cofounder-app).  The   *)
(* client is a set of page components; each page is modelled by its view   *)
(* state, the remote requests it has in flight and its event handlers.     *)
(* The pages are developed each under a specification of its own:          *)
(*   SpecRoute : App routes, ProtectedRoute, ProfileCompletionGate, Login  *)
(*   SpecSwipe : SwipePage of two viewers against one swipes table         *)
(*   SpecChat  : IndividualChatPage                                        *)
(*   SpecSettings : SettingsPage, ProfileUpdateSection                     *)
(*   SpecPost  : CreatePostForm                                            *)
(*   SpecFeed  : FeedPage                                                  *)
(*   SpecDash  : DashboardPage, Sidebar, ChatListPage                      *)
(*   SpecSetupForm : the username field of UserProfileSetupPage            *)
(***************************************************************************)
EXTENDS Naturals, Sequences, FiniteSets, Bags

VARIABLES
    \* ---- routing, authentication, profile gate, login page ----
    authStatus,      \* useAuthenticationStatus: "loading" | "signedOut" | "signedIn"
    location,        \* useLocation: [pathname, from]  (from = state.from.pathname)
    profileQuery,    \* useQuery(GET_USER_PROFILE_STATUS): "idle"|"loading"|"error"|"done"
    profileData,     \* its data: "undefined" | "none" | "incomplete" | "complete"
    profileCache,    \* Apollo cache entry of that query: "empty" or a data value
    serverProfile,   \* the viewer's row in the remote profiles table
    signIn,          \* useSignInEmailPassword: [isLoading, isSuccess, needsEmailVerification, isError]
    lastNav,         \* the last navigate()/<Navigate> call: [by, to, replace]
    setupPage,       \* UserProfileSetupPage: [upsert: "idle" | "awaiting", alert]
    \* ---- swipe page (per viewer) and the remote swipes table ----
    consistency,     \* remote read consistency: "strong" | "lagging"
    swipes,          \* remote swipes table: set of [swiper, swiped, action]
    savedUnique,     \* whether saved_profiles has a unique key on (saver, saved)
    savedRows,       \* remote saved_profiles table: set of [saver, saved, row]
    profiles,        \* useState profiles, per viewer
    currentIndex,    \* useState currentIndex, per viewer
    showMatchModal,  \* useState showMatchModal, per viewer
    matchedUserName, \* useState matchedUserName, per viewer
    savedProfileIds, \* useState savedProfileIds, per viewer
    candQuery,       \* useQuery(GET_SWIPE_CANDIDATES), per viewer: [loading, error, data, inFlight]
    swipeFlows,      \* handleSwipe invocations that are awaiting, per viewer (a bag)
    saveFlows,       \* handleSaveToggle invocations that are awaiting, per viewer (a bag)
    savedFetches,    \* refetchMySavedIds requests in flight, per viewer
    nSwipes,         \* swipe clicks made, per viewer
    nSaves,          \* save clicks made, per viewer
    sessionSwiped,   \* users each viewer has swiped since the page was mounted
    checkLog,        \* the checkForMatch reads: [viewer, target, saw, written, modal]
    swipeErrors,     \* error state of the swipe page's useMutation hooks, per viewer
    \* ---- individual chat page ----
    serverMessages,  \* remote messages table, in created_at order
    messagesQuery,   \* useQuery(GET_MESSAGES): [loading, error, data]
    newMessageContent, \* useState newMessageContent
    sendingMessage,  \* useMutation(SEND_MESSAGE_MUTATION) loading flag
    sendsInFlight,   \* sendMessage mutations awaiting their response: [id, content, row]
    optimistic,      \* optimistic echoes layered over the cache, oldest first
    nSends,          \* sendMessage calls made
    subPushes,       \* subscription payloads handled by onData
    consoleLog,      \* the last line written by console.log or console.error
    markReadCalls,   \* variables of the MarkConversationAsRead mutations issued
    markPending,     \* MarkConversationAsRead mutations not yet applied remotely
    alerts,          \* alert() dialogs raised (window.alert) by these pages' handlers
    \* ---- SettingsPage: ProfileUpdateSection ----
    settingsProfile, \* useQuery(GET_MY_PROFILE_FOR_EDIT): "loading", "loaded" (a profile
                     \* row), "empty" (no row) or "error"
    initialLoad,     \* useState initialLoad
    serverAvatarUrl, \* avatar_url of the user's remote profiles row
    storage,         \* ids of the files held by the remote object storage
    formAvatarUrl,   \* formData.avatarUrl
    avatarFile,      \* useState avatarFile
    isUploadingAvatar, \* useState isUploadingAvatar
    upsertLoading,   \* useMutation(UPSERT_USER_PROFILE) loading flag
    settingsFlows,   \* handleSubmit calls suspended at an await
    upsertLog,       \* the upsertProfile calls made: [file, avatarUrl]
    settingsRefetch, \* refetchProfile requests in flight
    settingsAlert,   \* the last alert() raised by ProfileUpdateSection
    nSubmits,        \* handleSubmit calls made
    \* ---- CreatePostForm ----
    contentText,     \* useState contentText
    imageFiles,      \* useState imageFiles
    videoFile,       \* useState videoFile
    isUploading,     \* useState isUploading
    creatingPost,    \* useMutation(CREATE_POST_MUTATION) loading flag
    postFlows,       \* handleSubmit calls suspended at an await
    postStorage,     \* files held by the remote object storage: [id, file]
    createLog,       \* the createPost calls made, with the files their submits held
    serverPosts,     \* rows of the remote posts table created by the form
    postAlert,       \* the last alert() raised by CreatePostForm
    onPostCreated,   \* onPostCreated() callbacks made
    nPostSubmits,    \* handleSubmit calls made
    \* ---- FeedPage ----
    feedCount,       \* rows of the remote posts table read by the feed (ids 1..feedCount)
    postsQuery,      \* useQuery(GET_FEED_POSTS): [loading, error, data]
    feedRequests,    \* posts requests in flight: [kind, offset]
    isLoadingMorePosts, \* useState isLoadingMorePosts
    interestsQuery,  \* useQuery(GET_USER_INTERESTS): "loading" | "none" | "some" | "error"
    newsArticles,    \* useState newsArticles
    newsLoading,     \* useState newsLoading
    newsError,       \* useState newsError
    newsFetch,       \* the fetch() of fetchNews is awaiting its response
    fetchMoreLog,    \* the last fetchMore call: [offset, loaded] (empty before the first)
    nRefetches,      \* refetchPosts calls made
    nNewPosts,       \* posts written since the page was mounted
    \* ---- DashboardPage, ChatListPage ----
    activeView,      \* useState activeView
    chatTargetUserId,   \* useState chatTargetUserId
    chatTargetUserName, \* useState chatTargetUserName
    isMobileSidebarOpen, \* useState isMobileSidebarOpen
    conversationsQuery, \* useQuery(GET_MY_CONVERSATIONS) of ChatListPage: [status, matches]
    \* ---- UserProfileSetupPage: the username field ----
    setupUser,       \* useUserData(): [displayName, email], or NoUserData
    formUsername,    \* formData.username
    effectDeps,      \* the dependencies the suggestion effect last ran with
    nSuggestions,    \* setFormData calls made by the suggestion effect
    nEdits           \* handleChange calls made on the username field

routeVars == <<authStatus, location, profileQuery, profileData, profileCache,
               serverProfile, signIn, lastNav, setupPage>>
swipeVars == <<consistency, swipes, savedUnique, savedRows, profiles, currentIndex, showMatchModal,
               matchedUserName, savedProfileIds, candQuery, swipeFlows, saveFlows,
               savedFetches, nSwipes, nSaves, sessionSwiped, checkLog, swipeErrors>>
chatVars  == <<serverMessages, messagesQuery, newMessageContent, sendingMessage,
               sendsInFlight, optimistic, nSends, subPushes, consoleLog, markReadCalls,
               markPending, alerts>>
settingsVars == <<settingsProfile, initialLoad, serverAvatarUrl, storage, formAvatarUrl, avatarFile,
                  isUploadingAvatar, upsertLoading, settingsFlows, upsertLog,
                  settingsRefetch, settingsAlert, nSubmits>>

postVars == <<contentText, imageFiles, videoFile, isUploading, creatingPost, postFlows,
              postStorage, createLog, serverPosts, postAlert, onPostCreated,
              nPostSubmits>>

feedVars == <<feedCount, postsQuery, feedRequests, isLoadingMorePosts, interestsQuery,
              newsArticles, newsLoading, newsError, newsFetch, fetchMoreLog,
              nRefetches, nNewPosts>>

dashVars == <<activeView, chatTargetUserId, chatTargetUserName, isMobileSidebarOpen,
              conversationsQuery>>

setupFormVars == <<setupUser, formUsername, effectDeps, nSuggestions, nEdits>>

vars == <<routeVars, swipeVars, chatVars, settingsVars, postVars, feedVars, dashVars,
          setupFormVars>>

\* What the actions of one page leave alone: the state of the other pages
exceptRoute == <<swipeVars, chatVars, settingsVars, postVars, feedVars, dashVars, setupFormVars>>
exceptSwipe == <<routeVars, chatVars, settingsVars, postVars, feedVars, dashVars, setupFormVars>>
exceptChat == <<routeVars, swipeVars, settingsVars, postVars, feedVars, dashVars, setupFormVars>>
exceptSettings == <<routeVars, swipeVars, chatVars, postVars, feedVars, dashVars, setupFormVars>>
exceptPost == <<routeVars, swipeVars, chatVars, settingsVars, feedVars, dashVars, setupFormVars>>
exceptFeed == <<routeVars, swipeVars, chatVars, settingsVars, postVars, dashVars, setupFormVars>>
exceptDash == <<routeVars, swipeVars, chatVars, settingsVars, postVars, feedVars, setupFormVars>>
exceptSetupForm == <<routeVars, swipeVars, chatVars, settingsVars, postVars, feedVars, dashVars>>

(***************************************************************************)
(* ROUTING: App, ProtectedRoute, ProfileCompletionGate, LoginPage, Navbar  *)
(***************************************************************************)

NoFrom == "none"
Paths == {"/", "/login", "/signup", "/dashboard", "/profile-setup", "/other"}
ProtectedPaths == {"/dashboard", "/profile-setup"}
ProfileStates == {"none", "incomplete", "complete"}
UserId == "u1"
NoUser == "null"

\* useUserData(): the signed-in user, or null
UserData == IF authStatus = "signedIn" THEN UserId ELSE NoUser

IsAuthenticated == authStatus = "signedIn"
AuthIsLoading == authStatus = "loading"

\* data?.profiles[0]?.profile_complete, as a truthy/falsy value
IsProfileComplete(data) == data = "complete"

\* A gate that lets every user with a profile row through.
GateRenderRowOnly(user, loading, error, data, child) ==
    IF loading THEN "ProfileLoading"
    ELSE IF error THEN "ProfileError"
    ELSE IF user # NoUser /\ data \notin {"incomplete", "complete"} THEN "NavigateSetup"
    ELSE child

\* ProfileCompletionGate: what it returns for the hook values it reads
GateRender(user, loading, error, data, child) ==
    IF loading THEN "ProfileLoading"
    ELSE IF error THEN "ProfileError"
    ELSE IF user # NoUser /\ ~IsProfileComplete(data) THEN "NavigateSetup"
    ELSE child

\* useQuery's loading flag: true from the first render of a mounted, unskipped query
ProfileQueryLoading == UserData # NoUser /\ profileQuery \in {"idle", "loading"}

\* A ProtectedRoute that leaves every decision to the profile gate.
ProtectedRouteRenderGateOnly(child) ==
    GateRender(UserData, ProfileQueryLoading, profileQuery = "error", profileData, child)

\* ProtectedRoute: what it returns, child being the matched child route's element
ProtectedRouteRender(child) ==
    IF AuthIsLoading THEN "AuthLoading"
    ELSE IF ~IsAuthenticated THEN "NavigateLogin"
    ELSE GateRender(UserData, ProfileQueryLoading, profileQuery = "error",
                    profileData, child)

\* Routes in which the landing page is a protected route.
RouteElementLandingProtected(path) ==
    CASE path = "/" -> ProtectedRouteRender("LandingPage")
      [] path = "/login" -> "LoginPage"
      [] path = "/signup" -> "SignupPage"
      [] path = "/dashboard" -> ProtectedRouteRender("DashboardPage")
      [] path = "/profile-setup" -> ProtectedRouteRender("UserProfileSetupPage")
      [] OTHER -> "NotFoundPage"

\* App's <Routes>: the element rendered for a pathname
RouteElement(path) ==
    CASE path = "/" -> "LandingPage"
      [] path = "/login" -> "LoginPage"
      [] path = "/signup" -> "SignupPage"
      [] path = "/dashboard" -> ProtectedRouteRender("DashboardPage")
      [] path = "/profile-setup" -> ProtectedRouteRender("UserProfileSetupPage")
      [] OTHER -> "NotFoundPage"

Screen == RouteElement(location.pathname)

\* Whether a rendered element shows the brand name "CoFound" (LandingPage's nav link)
ShowsBrandName(element) == element = "LandingPage"

\* Whether ProfileCompletionGate is mounted at a location under an auth status
GateMounted(path, auth) == path \in ProtectedPaths /\ auth = "signedIn"

\* The gate's query after a change of location or auth status: its state lives as
\* long as the gate stays mounted, and a fresh mount starts from the cache.
QueryAfter(path, auth) ==
    IF ~GateMounted(path, auth) THEN <<"idle", "undefined">>
    ELSE IF GateMounted(location.pathname, authStatus) THEN <<profileQuery, profileData>>
    ELSE IF profileCache # "empty" THEN <<"done", profileCache>>
    ELSE <<"loading", "undefined">>

\* LoginPage where every success lands on the dashboard.
LoginFromDashboardOnly(loc) == "/dashboard"

\* LoginPage: const from = location.state?.from?.pathname || '/dashboard'
LoginFrom(loc) == IF loc.from # NoFrom THEN loc.from ELSE "/dashboard"

\* A LoginPage effect that navigates on every success.
LoginEffectNavigatesOnSuccess(isSuccess, needsEmailVerification) == isSuccess

\* LoginPage's effect: the branch that calls navigate(from, { replace: true })
LoginEffectNavigates(isSuccess, needsEmailVerification) ==
    isSuccess /\ ~needsEmailVerification

\* useSignInEmailPassword before any attempt
SignInIdle == [isLoading |-> FALSE, isSuccess |-> FALSE,
               needsEmailVerification |-> FALSE, isError |-> FALSE]

\* The application is opened at any URL; the session is still being restored
RouteInit ==
    /\ authStatus = "loading"
    /\ location \in [pathname : Paths, from : {NoFrom}]
    /\ profileQuery = "idle"
    /\ profileData = "undefined"
    /\ profileCache = "empty"
    /\ serverProfile \in ProfileStates
    /\ signIn = SignInIdle
    /\ lastNav = [by |-> "none", to |-> "none", replace |-> FALSE]
    /\ setupPage = [upsert |-> "idle", alert |-> "none"]

(* ---- actions ---- *)

\* A location change made by the router, with the gate's query following it
MoveTo(path, from, auth) ==
    /\ location' = [pathname |-> path, from |-> from]
    /\ profileQuery' = QueryAfter(path, auth)[1]
    /\ profileData' = QueryAfter(path, auth)[2]

\* nhost restores (or fails to restore) the session on page load
AuthResolved ==
    /\ authStatus = "loading"
    /\ \E a \in {"signedOut", "signedIn"} :
         /\ authStatus' = a
         /\ MoveTo(location.pathname, location.from, a)
    /\ UNCHANGED <<profileCache, serverProfile, signIn, lastNav>>
    /\ UNCHANGED setupPage
    /\ UNCHANGED exceptRoute

\* A <Link> of Navbar or LandingPage, or a URL typed by the user: no location state
FollowLink ==
    /\ \E p \in Paths :
         /\ p # location.pathname
         /\ MoveTo(p, NoFrom, authStatus)
    /\ signIn' = SignInIdle
    /\ UNCHANGED <<authStatus, profileCache, serverProfile, lastNav>>
    /\ UNCHANGED setupPage
    /\ UNCHANGED exceptRoute

\* ProtectedRoute's <Navigate to="/login" state={{ from: location }} replace />
RedirectToLogin ==
    /\ Screen = "NavigateLogin"
    /\ MoveTo("/login", location.pathname, authStatus)
    /\ lastNav' = [by |-> "ProtectedRoute", to |-> "/login", replace |-> TRUE]
    /\ UNCHANGED <<authStatus, profileCache, serverProfile, signIn>>
    /\ UNCHANGED setupPage
    /\ UNCHANGED exceptRoute

\* ProfileCompletionGate's <Navigate to="/profile-setup" state={{ from: location }} replace />
RedirectToSetup ==
    /\ Screen = "NavigateSetup"
    /\ MoveTo("/profile-setup", location.pathname, authStatus)
    /\ lastNav' = [by |-> "ProfileCompletionGate", to |-> "/profile-setup", replace |-> TRUE]
    /\ UNCHANGED <<authStatus, profileCache, serverProfile, signIn>>
    /\ UNCHANGED setupPage
    /\ UNCHANGED exceptRoute

\* The gate's query is answered by the remote schema, or fails
ProfileQueryResolves ==
    /\ GateMounted(location.pathname, authStatus)
    /\ profileQuery = "loading"
    /\ \/ /\ profileQuery' = "done"
          /\ profileData' = serverProfile
          /\ profileCache' = serverProfile
       \/ /\ profileQuery' = "error"
          /\ profileData' = "undefined"
          /\ UNCHANGED profileCache
    /\ UNCHANGED <<authStatus, location, serverProfile, signIn, lastNav>>
    /\ UNCHANGED setupPage
    /\ UNCHANGED exceptRoute

\* LoginPage.handleEmailPasswordLogin: signInEmailPassword(email, password) is called
SubmitLogin ==
    /\ Screen = "LoginPage"
    /\ ~signIn.isLoading
    /\ signIn' = [isLoading |-> TRUE, isSuccess |-> FALSE,
                  needsEmailVerification |-> FALSE, isError |-> FALSE]
    /\ UNCHANGED <<authStatus, location, profileQuery, profileData, profileCache,
                   serverProfile, lastNav>>
    /\ UNCHANGED setupPage
    /\ UNCHANGED exceptRoute

\* The sign-in hook settles and LoginPage's effect on [isSuccess, needsEmailVerification]
\* runs: navigate(from, { replace: true }) only for a success without verification.
SignInSettles ==
    /\ Screen = "LoginPage"
    /\ signIn.isLoading
    /\ \E ok \in BOOLEAN, nv \in BOOLEAN :
         /\ signIn' = [isLoading |-> FALSE, isSuccess |-> ok,
                       needsEmailVerification |-> nv, isError |-> ~ok /\ ~nv]
         /\ IF LoginEffectNavigates(ok, nv)
            THEN /\ authStatus' = "signedIn"
                 /\ MoveTo(LoginFrom(location), NoFrom, "signedIn")
                 /\ lastNav' = [by |-> "LoginPage", to |-> LoginFrom(location),
                                replace |-> TRUE]
            ELSE UNCHANGED <<authStatus, location, profileQuery, profileData, lastNav>>
    /\ UNCHANGED <<profileCache, serverProfile>>
    /\ UNCHANGED setupPage
    /\ UNCHANGED exceptRoute

\* LoginPage.handleGoogleLogin: a session navigates to from, an error only alerts
GoogleLogin ==
    /\ Screen = "LoginPage"
    /\ \/ /\ authStatus' = "signedIn"
          /\ MoveTo(LoginFrom(location), NoFrom, "signedIn")
          /\ lastNav' = [by |-> "LoginPage", to |-> LoginFrom(location), replace |-> TRUE]
       \/ UNCHANGED <<authStatus, location, profileQuery, profileData, lastNav>>
    /\ UNCHANGED <<profileCache, serverProfile, signIn>>
    /\ UNCHANGED setupPage
    /\ UNCHANGED exceptRoute

\* Navbar.handleLogout: await nhost.auth.signOut(); navigate('/')
Logout ==
    /\ IsAuthenticated
    /\ authStatus' = "signedOut"
    /\ MoveTo("/", NoFrom, "signedOut")
    /\ lastNav' = [by |-> "Navbar", to |-> "/", replace |-> FALSE]
    /\ signIn' = SignInIdle
    /\ UNCHANGED <<profileCache, serverProfile>>
    /\ UNCHANGED setupPage
    /\ UNCHANGED exceptRoute

\* A setup page that stays where it is after a complete result.
SetupResultTargetSetup(profile_complete) == <<"/profile-setup">>

\* UserProfileSetupPage.handleSubmit after the await: navigate('/dashboard') when
\* result.data.insert_profiles_one.profile_complete is truthy, else no navigation
SetupResultTarget(profile_complete) ==
    IF profile_complete THEN <<"/dashboard">> ELSE <<>>

\* UserProfileSetupPage.handleSubmit up to its await: a blank username only alerts
SetupHandleSubmit ==
    /\ Screen = "UserProfileSetupPage"
    /\ setupPage.upsert = "idle"
    /\ \E usernameBlank \in BOOLEAN :
         setupPage' = IF usernameBlank
                      THEN [setupPage EXCEPT !.alert = "username"]
                      ELSE [setupPage EXCEPT !.upsert = "awaiting"]
    /\ UNCHANGED <<authStatus, location, profileQuery, profileData, profileCache,
                   serverProfile, signIn, lastNav>>
    /\ UNCHANGED exceptRoute

\* The upsert is applied and answered: the row is written with profile_complete
\* true and returned, and handleSubmit navigates on it
SetupUpsertReturns ==
    /\ setupPage.upsert = "awaiting"
    /\ serverProfile' = "complete"
    /\ LET target == SetupResultTarget(IsProfileComplete(serverProfile'))
       IN IF target # <<>>
          THEN /\ MoveTo(target[1], NoFrom, authStatus)
               /\ lastNav' = [by |-> "UserProfileSetupPage", to |-> target[1],
                              replace |-> FALSE]
               /\ setupPage' = [setupPage EXCEPT !.upsert = "idle"]
          ELSE /\ setupPage' = [upsert |-> "idle", alert |-> "incomplete"]
               /\ UNCHANGED <<location, profileQuery, profileData, lastNav>>
    /\ UNCHANGED <<authStatus, profileCache, signIn>>
    /\ UNCHANGED exceptRoute

\* The upsert fails: the catch of handleSubmit logs the error
SetupUpsertFails ==
    /\ setupPage.upsert = "awaiting"
    /\ setupPage' = [setupPage EXCEPT !.upsert = "idle"]
    /\ UNCHANGED <<authStatus, location, profileQuery, profileData, profileCache,
                   serverProfile, signIn, lastNav>>
    /\ UNCHANGED exceptRoute

NextRoute ==
    \/ AuthResolved
    \/ FollowLink
    \/ RedirectToLogin
    \/ RedirectToSetup
    \/ ProfileQueryResolves
    \/ SubmitLogin
    \/ SignInSettles
    \/ GoogleLogin
    \/ Logout
    \/ SetupHandleSubmit
    \/ SetupUpsertReturns
    \/ SetupUpsertFails

(***************************************************************************)
(* SWIPE PAGE: SwipePage of each viewer, and the remote tables it uses     *)
(***************************************************************************)

MaxClicks == 2        \* card-button clicks (swipe or save) of the viewer, one viewer explored
MaxMatchSwipes == 1   \* swipe clicks per viewer, two viewers explored
MaxRefresh == 1       \* candidate requests that may be in flight when Refresh is clicked
CandidateLimit == 10

Viewers == {"A", "B"}
Users == {"A", "B", "C"}
\* profiles in created_at desc order; every profile is complete
NewestFirst == <<"B", "A", "C">>
\* a query's data is <<>> while undefined and <<list>> once a result is held
NoData == <<>>

Take(s, n) == IF Len(s) <= n THEN s ELSE SubSeq(s, 1, n)

\* GET_SWIPE_CANDIDATES for viewer u, evaluated on the remote tables
Candidates(u) ==
    Take(SelectSeq(NewestFirst,
                   LAMBDA p : /\ p # u
                              /\ ~\E s \in swipes : s.swiper = u /\ s.swiped = p),
         CandidateLimit)

\* A match check that filters on the wrong action.
CheckForMatchRowsPass(u, t) ==
    {s \in swipes : s.swiper = t /\ s.swiped = u /\ s.action = "pass"}

\* CHECK_FOR_MATCH_QUERY for viewer u and swiped user t, evaluated on the remote table
CheckForMatchRows(u, t) ==
    {s \in swipes : s.swiper = t /\ s.swiped = u /\ s.action = "like"}

\* What a checkForMatch read may return: the table's rows, or under replication
\* lag a state of the table from before the reciprocal like was written
CheckForMatchResults(u, t) ==
    IF consistency = "lagging" THEN {CheckForMatchRows(u, t), {}}
    ELSE {CheckForMatchRows(u, t)}

\* The rows of saved_profiles in which u has saved t
SavedRowsOf(u, t) == {r \in savedRows : r.saver = u /\ r.saved = t}

\* A table that accepts every insert.
SaveInsertNeverRejected(u, t) == FALSE

\* insert_saved_profiles_one is rejected when the table has the unique key and
\* holds the row already
SaveInsertRejected(u, t) == savedUnique /\ SavedRowsOf(u, t) # {}

\* GET_MY_SAVED_PROFILE_IDS for viewer u
SavedIds(u) == {r.saved : r \in {x \in savedRows : x.saver = u}}

\* const currentProfile = profiles[currentIndex]
HasCurrentProfile(u) == currentIndex[u] < Len(profiles[u])
CurrentProfile(u) == profiles[u][currentIndex[u] + 1]

\* An advance that always moves the index.
HandleAdvanceCardAlways(idx, len) == [index |-> idx + 1, refetch |-> FALSE]

\* handleAdvanceCard: refetch on the last card, the next index otherwise
HandleAdvanceCard(idx, len) ==
    IF idx + 1 >= len
    THEN [index |-> idx, refetch |-> TRUE]
    ELSE [index |-> idx + 1, refetch |-> FALSE]

\* A save handler that moves to the next card like a swipe does.
SaveAdvanceLikeSwipe(idx, len) == HandleAdvanceCard(idx, len)

\* handleSaveToggle: what it does to the card index (it never calls handleAdvanceCard)
SaveAdvance(idx, len) == [index |-> idx, refetch |-> FALSE]

\* A modal condition that needs more than the one row the check asks for.
MatchFoundTwoRows(rows) == Cardinality(rows) > 1

\* A modal condition that also opens on an empty check result.
MatchFoundAlways(rows) == TRUE

\* handleSwipe: matchResult.data?.swipes && matchResult.data.swipes.length > 0
MatchFound(rows) == Cardinality(rows) > 0

\* SwipePage's return: the blocks rendered for viewer u
SwipeScreen(u) ==
    LET loading == candQuery[u].loading
        has == HasCurrentProfile(u)
        n == Len(profiles[u])
    IN  (IF loading THEN {"Loading"} ELSE {})
        \cup (IF candQuery[u].error THEN {"Error"} ELSE {})
        \cup (IF ~has /\ n = 0 /\ ~loading THEN {"NoMoreProfiles"} ELSE {})
        \cup (IF ~has /\ currentIndex[u] > 0 /\ n > 0 /\ ~loading
              THEN {"FetchingMore"} ELSE {})
        \cup (IF has THEN {"Card"} ELSE {})
        \cup (IF ~has /\ ~loading /\ n > 0 /\ currentIndex[u] = 0
              THEN {"SomethingWrong"} ELSE {})
        \cup (IF showMatchModal[u] THEN {"MatchModal"} ELSE {})

\* Both viewers have just mounted SwipePage: the candidates query and the saved-ids
\* query are in flight, nothing has been swiped
SwipeInit ==
    /\ consistency \in {"strong", "lagging"}
    /\ swipes = {}
    /\ savedUnique \in BOOLEAN
    /\ savedRows = {}
    /\ profiles = [u \in Viewers |-> <<>>]
    /\ currentIndex = [u \in Viewers |-> 0]
    /\ showMatchModal = [u \in Viewers |-> FALSE]
    /\ matchedUserName = [u \in Viewers |-> ""]
    /\ savedProfileIds = [u \in Viewers |-> {}]
    /\ candQuery = [u \in Viewers |->
                      [loading |-> TRUE, error |-> FALSE, data |-> NoData, inFlight |-> 1]]
    /\ swipeFlows = [u \in Viewers |-> EmptyBag]
    /\ saveFlows = [u \in Viewers |-> EmptyBag]
    /\ savedFetches = [u \in Viewers |-> 1]
    /\ nSwipes = [u \in Viewers |-> 0]
    /\ nSaves = [u \in Viewers |-> 0]
    /\ sessionSwiped = [u \in Viewers |-> {}]
    /\ checkLog = {}
    /\ swipeErrors = [u \in Viewers |-> [recordSwipe |-> FALSE, save |-> FALSE]]

(* ---- actions ---- *)

\* A candidates request (the first one, or a refetch) is answered.  useEffect([data])
\* runs when the data differs from the data held: setProfiles, setCurrentIndex(0).
CandidatesArrive(u) ==
    /\ candQuery[u].inFlight > 0
    /\ \/ LET list == Candidates(u)
          IN  /\ candQuery' = [candQuery EXCEPT ![u] =
                     [loading |-> FALSE, error |-> FALSE, data |-> <<list>>,
                      inFlight |-> @.inFlight - 1]]
              /\ IF <<list>> # candQuery[u].data
                 THEN /\ profiles' = [profiles EXCEPT ![u] = list]
                      /\ currentIndex' = [currentIndex EXCEPT ![u] = 0]
                 ELSE UNCHANGED <<profiles, currentIndex>>
       \/ /\ \E d \in {candQuery[u].data, NoData} :
               candQuery' = [candQuery EXCEPT ![u] =
                     [loading |-> FALSE, error |-> TRUE, data |-> d,
                      inFlight |-> @.inFlight - 1]]
          /\ UNCHANGED <<profiles, currentIndex>>
    /\ UNCHANGED <<consistency, savedUnique, swipes, savedRows, showMatchModal, matchedUserName,
                   savedProfileIds, swipeFlows, saveFlows, savedFetches, nSwipes,
                   nSaves, sessionSwiped, checkLog>>
    /\ UNCHANGED swipeErrors
    /\ UNCHANGED exceptSwipe

\* The Refresh button of the two empty states: refetchCandidates()
RefreshClick(u) ==
    /\ SwipeScreen(u) \cap {"NoMoreProfiles", "FetchingMore"} # {}
    /\ candQuery' = [candQuery EXCEPT ![u].inFlight = @ + 1]
    /\ UNCHANGED <<consistency, savedUnique, swipes, savedRows, profiles, currentIndex, showMatchModal,
                   matchedUserName, savedProfileIds, swipeFlows, saveFlows, savedFetches,
                   nSwipes, nSaves, sessionSwiped, checkLog>>
    /\ UNCHANGED swipeErrors
    /\ UNCHANGED exceptSwipe

\* Card.onSwipe -> handleSwipe(currentProfile.user_id, action), up to its first await:
\* handleAdvanceCard(), then recordSwipe is sent
SwipeClick(u, action) ==
    /\ HasCurrentProfile(u)
    /\ LET adv == HandleAdvanceCard(currentIndex[u], Len(profiles[u]))
           t == CurrentProfile(u)
       IN  /\ currentIndex' = [currentIndex EXCEPT ![u] = adv.index]
           /\ candQuery' = [candQuery EXCEPT ![u].inFlight =
                              IF adv.refetch THEN @ + 1 ELSE @]
           /\ swipeFlows' = [swipeFlows EXCEPT ![u] = @ (+)
                  SetToBag({[target |-> t, action |-> action, pc |-> "recordSwipe"]})]
           /\ sessionSwiped' = [sessionSwiped EXCEPT ![u] = @ \cup {t}]
    /\ nSwipes' = [nSwipes EXCEPT ![u] = @ + 1]
    /\ UNCHANGED <<consistency, savedUnique, swipes, savedRows, profiles, showMatchModal,
                   matchedUserName, savedProfileIds, saveFlows, savedFetches, nSaves,
                   checkLog>>
    /\ swipeErrors' = [swipeErrors EXCEPT ![u].recordSwipe = FALSE]
    /\ UNCHANGED exceptSwipe

\* await recordSwipe(...) returns: the row is inserted, and a like goes on to
\* checkForMatch; or the mutation throws and the catch block swallows it
RecordSwipeReturns(u, f) ==
    /\ BagIn(f, swipeFlows[u])
    /\ f.pc = "recordSwipe"
    /\ \/ /\ swipes' = swipes \cup
                 {[swiper |-> u, swiped |-> f.target, action |-> f.action]}
          /\ swipeFlows' = [swipeFlows EXCEPT ![u] =
                 IF f.action = "like"
                 THEN (@ (-) SetToBag({f})) (+) SetToBag({[f EXCEPT !.pc = "checkForMatch"]})
                 ELSE @ (-) SetToBag({f})]
          /\ UNCHANGED swipeErrors
       \/ /\ swipeFlows' = [swipeFlows EXCEPT ![u] = @ (-) SetToBag({f})]
          /\ swipeErrors' = [swipeErrors EXCEPT ![u].recordSwipe = TRUE]
          /\ UNCHANGED swipes
    /\ UNCHANGED <<consistency, savedUnique, savedRows, profiles, currentIndex, showMatchModal,
                   matchedUserName, savedProfileIds, candQuery, saveFlows, savedFetches,
                   nSwipes, nSaves, sessionSwiped, checkLog>>
    /\ UNCHANGED exceptSwipe

\* await checkForMatch(...) returns rows: the modal opens when a row came back.
\* profiles.find(...) runs on the profiles of the render the card was swiped in,
\* which hold the swiped profile, so matchedUserName is its username.
CheckForMatchReturns(u, f) ==
    /\ BagIn(f, swipeFlows[u])
    /\ f.pc = "checkForMatch"
    /\ \E rows \in CheckForMatchResults(u, f.target) :
         /\ IF MatchFound(rows)
            THEN /\ showMatchModal' = [showMatchModal EXCEPT ![u] = TRUE]
                 /\ matchedUserName' = [matchedUserName EXCEPT ![u] = f.target]
            ELSE UNCHANGED <<showMatchModal, matchedUserName>>
         /\ checkLog' = checkLog \cup
               {[viewer |-> u, target |-> f.target, saw |-> rows # {},
                 written |-> \E s \in swipes : /\ s.swiper = f.target /\ s.swiped = u
                                               /\ s.action = "like",
                 modal |-> MatchFound(rows)]}
    /\ swipeFlows' = [swipeFlows EXCEPT ![u] = @ (-) SetToBag({f})]
    /\ UNCHANGED <<consistency, savedUnique, swipes, savedRows, profiles, currentIndex,
                   savedProfileIds, candQuery, saveFlows, savedFetches, nSwipes, nSaves,
                   sessionSwiped>>
    /\ UNCHANGED swipeErrors
    /\ UNCHANGED exceptSwipe

\* await checkForMatch(...) throws: the catch block swallows it
CheckForMatchThrows(u, f) ==
    /\ BagIn(f, swipeFlows[u])
    /\ f.pc = "checkForMatch"
    /\ swipeFlows' = [swipeFlows EXCEPT ![u] = @ (-) SetToBag({f})]
    /\ UNCHANGED <<consistency, savedUnique, swipes, savedRows, profiles, currentIndex, showMatchModal,
                   matchedUserName, savedProfileIds, candQuery, saveFlows, savedFetches,
                   nSwipes, nSaves, sessionSwiped, checkLog>>
    /\ UNCHANGED swipeErrors
    /\ UNCHANGED exceptSwipe

\* closeMatchModal
CloseMatchModal(u) ==
    /\ showMatchModal[u]
    /\ showMatchModal' = [showMatchModal EXCEPT ![u] = FALSE]
    /\ matchedUserName' = [matchedUserName EXCEPT ![u] = ""]
    /\ UNCHANGED <<consistency, savedUnique, swipes, savedRows, profiles, currentIndex,
                   savedProfileIds, candQuery, swipeFlows, saveFlows, savedFetches,
                   nSwipes, nSaves, sessionSwiped, checkLog>>
    /\ UNCHANGED swipeErrors
    /\ UNCHANGED exceptSwipe

\* Card.onSave -> handleSaveToggle(currentProfile.user_id), up to its await: the
\* mutation is chosen from savedProfileIds and sent
SaveClick(u) ==
    /\ HasCurrentProfile(u)
    /\ LET adv == SaveAdvance(currentIndex[u], Len(profiles[u]))
           t == CurrentProfile(u)
       IN  /\ currentIndex' = [currentIndex EXCEPT ![u] = adv.index]
           /\ candQuery' = [candQuery EXCEPT ![u].inFlight =
                              IF adv.refetch THEN @ + 1 ELSE @]
           /\ saveFlows' = [saveFlows EXCEPT ![u] = @ (+)
                  SetToBag({[target |-> t,
                             op |-> IF t \in savedProfileIds[u] THEN "unsave" ELSE "save"]})]
    /\ nSaves' = [nSaves EXCEPT ![u] = @ + 1]
    /\ UNCHANGED <<consistency, savedUnique, swipes, savedRows, profiles, showMatchModal,
                   matchedUserName, savedProfileIds, swipeFlows, savedFetches, nSwipes,
                   sessionSwiped, checkLog>>
    /\ swipeErrors' = [swipeErrors EXCEPT ![u].save = FALSE]
    /\ UNCHANGED exceptSwipe

\* The save or unsave mutation returns and refetchMySavedIds() is called; or it
\* throws and the catch block logs it
SaveMutationReturns(u, f) ==
    /\ BagIn(f, saveFlows[u])
    /\ \/ /\ f.op = "save" => ~SaveInsertRejected(u, f.target)
          /\ savedRows' = IF f.op = "save"
                          THEN savedRows \cup
                                 {[saver |-> u, saved |-> f.target,
                                   row |-> Cardinality(SavedRowsOf(u, f.target)) + 1]}
                          ELSE savedRows \ SavedRowsOf(u, f.target)
          /\ savedFetches' = [savedFetches EXCEPT ![u] = @ + 1]
          /\ UNCHANGED swipeErrors
       \/ /\ swipeErrors' = [swipeErrors EXCEPT ![u].save = TRUE]
          /\ UNCHANGED <<savedRows, savedFetches>>
    /\ saveFlows' = [saveFlows EXCEPT ![u] = @ (-) SetToBag({f})]
    /\ UNCHANGED <<consistency, savedUnique, swipes, profiles, currentIndex, showMatchModal,
                   matchedUserName, savedProfileIds, candQuery, swipeFlows, nSwipes,
                   nSaves, sessionSwiped, checkLog>>
    /\ UNCHANGED exceptSwipe

\* GET_MY_SAVED_PROFILE_IDS completes: onCompleted sets savedProfileIds
SavedIdsArrive(u) ==
    /\ savedFetches[u] > 0
    /\ savedFetches' = [savedFetches EXCEPT ![u] = @ - 1]
    /\ savedProfileIds' = [savedProfileIds EXCEPT ![u] = SavedIds(u)]
    /\ UNCHANGED <<consistency, savedUnique, swipes, savedRows, profiles, currentIndex, showMatchModal,
                   matchedUserName, candQuery, swipeFlows, saveFlows, nSwipes, nSaves,
                   sessionSwiped, checkLog>>
    /\ UNCHANGED swipeErrors
    /\ UNCHANGED exceptSwipe

\* Another user records a like on the viewer (their own SwipePage, elsewhere)
OtherUserLikes(u) ==
    /\ \E o \in Users \ {u} :
         /\ [swiper |-> o, swiped |-> u, action |-> "like"] \notin swipes
         /\ swipes' = swipes \cup {[swiper |-> o, swiped |-> u, action |-> "like"]}
    /\ UNCHANGED <<consistency, savedUnique, savedRows, profiles, currentIndex, showMatchModal,
                   matchedUserName, savedProfileIds, candQuery, swipeFlows, saveFlows,
                   savedFetches, nSwipes, nSaves, sessionSwiped, checkLog>>
    /\ UNCHANGED swipeErrors
    /\ UNCHANGED exceptSwipe

\* One viewer's SwipePage, with every control of the page in use
NextSwipe ==
    \E u \in {"A"} :
         \/ CandidatesArrive(u)
         \/ candQuery[u].inFlight < MaxRefresh /\ RefreshClick(u)
         \/ \E a \in {"like", "pass"} : nSwipes[u] + nSaves[u] < MaxClicks /\ SwipeClick(u, a)
         \/ \E f \in BagToSet(swipeFlows[u]) : RecordSwipeReturns(u, f)
         \/ \E f \in BagToSet(swipeFlows[u]) : CheckForMatchReturns(u, f)
         \/ \E f \in BagToSet(swipeFlows[u]) : CheckForMatchThrows(u, f)
         \/ CloseMatchModal(u)
         \/ nSwipes[u] + nSaves[u] < MaxClicks /\ SaveClick(u)
         \/ \E f \in BagToSet(saveFlows[u]) : SaveMutationReturns(u, f)
         \/ SavedIdsArrive(u)
         \/ OtherUserLikes(u)

\* Two viewers swiping on each other's profiles against the same swipes table
NextMatch ==
    \E u \in Viewers :
         \/ CandidatesArrive(u)
         \/ \E a \in {"like", "pass"} : nSwipes[u] < MaxMatchSwipes /\ SwipeClick(u, a)
         \/ \E f \in BagToSet(swipeFlows[u]) : RecordSwipeReturns(u, f)
         \/ \E f \in BagToSet(swipeFlows[u]) : CheckForMatchReturns(u, f)
         \/ \E f \in BagToSet(swipeFlows[u]) : CheckForMatchThrows(u, f)
         \/ CloseMatchModal(u)

\* swipe clicks of the one viewer who swipes through every loaded card
MaxSwipes == 3

\* One viewer, liked by nobody, swiping through the loaded cards and on past
\* the last one
NextSwipeThrough ==
    \E u \in {"A"} :
         \/ CandidatesArrive(u)
         \/ \E a \in {"like", "pass"} : nSwipes[u] < MaxSwipes /\ SwipeClick(u, a)
         \/ \E f \in BagToSet(swipeFlows[u]) : RecordSwipeReturns(u, f)
         \/ \E f \in BagToSet(swipeFlows[u]) : CheckForMatchReturns(u, f)
         \/ \E f \in BagToSet(swipeFlows[u]) : CheckForMatchThrows(u, f)

(***************************************************************************)
(* CHAT PAGE: IndividualChatPage                                           *)
(***************************************************************************)

MaxMessages == 2      \* rows of the remote messages table
MaxSends == 2         \* sendMessage calls
MaxPushes == 1        \* subscription payloads delivered
MessagesLimit == 20   \* limit of the page's GET_MESSAGES query
SubscriptionLimit == 10

Me == "me"            \* currentUserId
Peer == "peer"        \* targetUserId
Stranger == "other"   \* a third user who also writes to the current user
Contents == {"", " ", "hi"}

\* new Date() on the client when the echo is built: the client's clock runs with the
\* remote clock (the next created_at) or behind it
ClientClocks == {0, Len(serverMessages) + 1}

\* String.prototype.trim on the contents the model types
Trim(c) == IF c = " " THEN "" ELSE c

\* The rows of a sequence with the elements that satisfy Test removed is SelectSeq;
\* a row of the conversation between a and b
InConversation(m, a, b) ==
    \/ m.sender = a /\ m.receiver = b
    \/ m.sender = b /\ m.receiver = a

Reverse(s) == [i \in 1..Len(s) |-> s[Len(s) + 1 - i]]

\* GET_MESSAGES(currentUserId, otherUserId, limit), offset 0: created_at asc
GetMessages(a, b, limit) ==
    Take(SelectSeq(serverMessages, LAMBDA m : InConversation(m, a, b)), limit)

\* ON_NEW_MESSAGE_SUBSCRIPTION: the latest rows of the conversation, created_at desc
SubscriptionRows(a, b) ==
    Take(Reverse(SelectSeq(serverMessages, LAMBDA m : InConversation(m, a, b))),
         SubscriptionLimit)

\* Array.prototype.sort by created_at (a stable insertion into a sorted prefix)
RECURSIVE SortByCreatedAt(_)
SortByCreatedAt(s) ==
    IF Len(s) <= 1 THEN s
    ELSE LET rest == SortByCreatedAt(SubSeq(s, 1, Len(s) - 1))
             x == s[Len(s)]
             before == SelectSeq(rest, LAMBDA m : m.at <= x.at)
             after == SelectSeq(rest, LAMBDA m : m.at > x.at)
         IN  before \o <<x>> \o after

\* onData's combinedMessages: the held messages, then the pushed ones whose id is
\* not held, sorted by created_at
CombinedMessages(existing, new) ==
    SortByCreatedAt(existing \o
        SelectSeq(new, LAMBDA nm : ~\E i \in 1..Len(existing) : existing[i].id = nm.id))

\* A subscription handler that writes the combined list back to the query's data.
OnDataWritesCombined(data, new) ==
    IF data # NoData /\ Len(new) > 0 THEN <<CombinedMessages(data[1], new)>> ELSE data

\* useSubscription onData: the query data after the callback has run (the callback
\* computes combinedMessages, logs the payload and writes nothing)
OnDataResult(data, new) == data

\* onData: whether the callback reaches its console.log
OnDataLogs(data, new) == data # NoData /\ Len(new) > 0

\* const messages = messagesData?.messages || [], the cache read with its optimistic layer
Messages ==
    IF messagesQuery.data = NoData THEN <<>>
    ELSE messagesQuery.data[1] \o optimistic

\* An input that stays enabled while a send is in flight.
InputNeverDisabled(sending) == FALSE

\* <input disabled={sendingMessage}>
InputDisabled(sending) == sending

\* <button type="submit" disabled={sendingMessage || !newMessageContent.trim()}>
SendButtonDisabled(sending, content) == sending \/ Trim(content) = ""

\* A markAsRead call with the two roles swapped.
MarkAsReadVariablesSwapped(target, current) ==
    [senderId |-> current, currentUserId |-> target]

\* markAsRead({ variables: { senderId: targetUserId, currentUserId } })
MarkAsReadVariables(target, current) ==
    [senderId |-> target, currentUserId |-> current]

\* The page has just mounted: GET_MESSAGES is in flight and the markAsRead effect
\* has run once
ChatInit ==
    /\ serverMessages = <<>>
    /\ messagesQuery = [loading |-> TRUE, error |-> FALSE, data |-> NoData,
                        response |-> NoData]
    /\ newMessageContent = ""
    /\ sendingMessage = FALSE
    /\ sendsInFlight = {}
    /\ optimistic = <<>>
    /\ nSends = 0
    /\ subPushes = 0
    /\ consoleLog = <<>>
    /\ markReadCalls = {MarkAsReadVariables(Peer, Me)}
    /\ markPending = 1
    /\ alerts = 0

\* useEffect([targetUserId, currentUserId, markAsRead, messagesData]): a change of
\* messagesData issues MarkConversationAsRead(senderId: targetUserId, currentUserId)
MarkAsReadEffect(changed) ==
    IF changed
    THEN /\ markReadCalls' = markReadCalls \cup {MarkAsReadVariables(Peer, Me)}
         /\ markPending' = markPending + 1
    ELSE UNCHANGED <<markReadCalls, markPending>>

(* ---- actions ---- *)

\* The remote schema evaluates the page's GET_MESSAGES query
MessagesQueryAnswered ==
    /\ messagesQuery.loading
    /\ messagesQuery.response = NoData
    /\ messagesQuery' = [messagesQuery EXCEPT
                           !.response = <<GetMessages(Me, Peer, MessagesLimit)>>]
    /\ UNCHANGED <<serverMessages, newMessageContent, sendingMessage, sendsInFlight,
                   optimistic, nSends, subPushes, consoleLog, markReadCalls, markPending,
                   alerts>>
    /\ UNCHANGED exceptChat

\* The query's response reaches the page, or the request fails
MessagesQueryArrives ==
    /\ messagesQuery.loading
    /\ \/ /\ messagesQuery.response # NoData
          /\ messagesQuery' = [loading |-> FALSE, error |-> FALSE,
                               data |-> messagesQuery.response, response |-> NoData]
          /\ MarkAsReadEffect(TRUE)
       \/ /\ messagesQuery' = [loading |-> FALSE, error |-> TRUE, data |-> NoData,
                               response |-> NoData]
          /\ MarkAsReadEffect(FALSE)
    /\ UNCHANGED <<serverMessages, newMessageContent, sendingMessage, sendsInFlight,
                   optimistic, nSends, subPushes, consoleLog, alerts>>
    /\ UNCHANGED exceptChat

\* onChange of the message input: setNewMessageContent(e.target.value)
TypeMessage(c) ==
    /\ ~InputDisabled(sendingMessage)
    /\ c # newMessageContent
    /\ newMessageContent' = c
    /\ UNCHANGED <<serverMessages, messagesQuery, sendingMessage, sendsInFlight,
                   optimistic, nSends, subPushes, consoleLog, markReadCalls, markPending,
                   alerts>>
    /\ UNCHANGED exceptChat

\* handleSendMessage up to its await: blank content returns; otherwise sendMessage is
\* called, and its update function, run on the optimistic response, appends the echo
\* to the query data when cache.readQuery finds that data
HandleSendMessage ==
    IF Trim(newMessageContent) = ""
    THEN UNCHANGED vars
    ELSE /\ sendingMessage' = TRUE
         /\ nSends' = nSends + 1
         /\ sendsInFlight' = sendsInFlight \cup
                {[id |-> nSends + 1, content |-> newMessageContent, row |-> NoData]}
         /\ IF messagesQuery.data # NoData
            THEN /\ \E now \in ClientClocks :
                       optimistic' = Append(optimistic,
                           [id |-> 100 + nSends + 1, sender |-> Me, receiver |-> Peer,
                            at |-> now, is_read |-> FALSE])
                 /\ MarkAsReadEffect(TRUE)
            ELSE /\ UNCHANGED optimistic
                 /\ MarkAsReadEffect(FALSE)
         /\ UNCHANGED <<serverMessages, messagesQuery, newMessageContent, subPushes,
                        consoleLog, alerts>>
         /\ UNCHANGED exceptChat

\* The form is submitted with the Send button
SubmitByButton ==
    /\ ~SendButtonDisabled(sendingMessage, newMessageContent)
    /\ nSends < MaxSends
    /\ HandleSendMessage

\* The form is submitted from the text input (Enter)
SubmitByEnter ==
    /\ ~InputDisabled(sendingMessage)
    /\ nSends < MaxSends
    /\ HandleSendMessage

\* The remote schema runs insert_messages_one for a send in flight
SendApplied(f) ==
    /\ f \in sendsInFlight
    /\ f.row = NoData
    /\ Len(serverMessages) < MaxMessages
    /\ LET row == [id |-> Len(serverMessages) + 1, sender |-> Me, receiver |-> Peer,
                   at |-> Len(serverMessages) + 1, is_read |-> FALSE]
       IN  /\ serverMessages' = Append(serverMessages, row)
           /\ sendsInFlight' = (sendsInFlight \ {f}) \cup {[f EXCEPT !.row = <<row>>]}
    /\ UNCHANGED <<messagesQuery, newMessageContent, sendingMessage, optimistic, nSends,
                   subPushes, consoleLog, markReadCalls, markPending, alerts>>
    /\ UNCHANGED exceptChat

\* The send mutation returns its row: the echo is dropped, update appends the row to
\* the query data when it is in the cache, and the input is cleared
SendReturns(f) ==
    /\ f \in sendsInFlight
    /\ f.row # NoData
    /\ messagesQuery' = [messagesQuery EXCEPT !.data =
           IF @ # NoData THEN <<Append(@[1], f.row[1])>> ELSE @]
    /\ optimistic' = SelectSeq(optimistic, LAMBDA m : m.id # 100 + f.id)
    /\ sendsInFlight' = sendsInFlight \ {f}
    /\ sendingMessage' = IF f.id = nSends THEN FALSE ELSE sendingMessage
    /\ newMessageContent' = ""
    /\ MarkAsReadEffect(messagesQuery.data # NoData)
    /\ UNCHANGED <<serverMessages, nSends, subPushes, consoleLog, alerts>>
    /\ UNCHANGED exceptChat

\* The send mutation fails: the echo is dropped, the catch block logs and alerts
SendFails(f) ==
    /\ f \in sendsInFlight
    /\ optimistic' = SelectSeq(optimistic, LAMBDA m : m.id # 100 + f.id)
    /\ sendsInFlight' = sendsInFlight \ {f}
    /\ sendingMessage' = IF f.id = nSends THEN FALSE ELSE sendingMessage
    /\ consoleLog' = <<"Error sending message:">>
    /\ alerts' = alerts + 1
    /\ MarkAsReadEffect(optimistic' # optimistic)
    /\ UNCHANGED <<serverMessages, messagesQuery, newMessageContent, nSends, subPushes>>
    /\ UNCHANGED exceptChat

\* The subscription delivers the latest rows and onData handles them
SubscriptionPush ==
    /\ subPushes < MaxPushes
    /\ LET new == SubscriptionRows(Me, Peer)
       IN  /\ messagesQuery' = [messagesQuery EXCEPT !.data = OnDataResult(@, new)]
           /\ consoleLog' = IF OnDataLogs(messagesQuery.data, new)
                            THEN <<"New message received via subscription:", new>>
                            ELSE consoleLog
           /\ MarkAsReadEffect(OnDataResult(messagesQuery.data, new) # messagesQuery.data)
    /\ subPushes' = subPushes + 1
    /\ UNCHANGED <<serverMessages, newMessageContent, sendingMessage, sendsInFlight,
                   optimistic, nSends, alerts>>
    /\ UNCHANGED exceptChat

\* Another user's page inserts a message addressed to the current user
OtherUserSends(from) ==
    /\ Len(serverMessages) < MaxMessages
    /\ serverMessages' = Append(serverMessages,
           [id |-> Len(serverMessages) + 1, sender |-> from, receiver |-> Me,
            at |-> Len(serverMessages) + 1, is_read |-> FALSE])
    /\ UNCHANGED <<messagesQuery, newMessageContent, sendingMessage, sendsInFlight,
                   optimistic, nSends, subPushes, consoleLog, markReadCalls, markPending,
                   alerts>>
    /\ UNCHANGED exceptChat

\* The remote schema applies one MarkConversationAsRead mutation
MarkAsReadApplied ==
    /\ markPending > 0
    /\ markPending' = markPending - 1
    /\ serverMessages' = [i \in 1..Len(serverMessages) |->
           IF /\ serverMessages[i].sender = Peer
              /\ serverMessages[i].receiver = Me
              /\ ~serverMessages[i].is_read
           THEN [serverMessages[i] EXCEPT !.is_read = TRUE]
           ELSE serverMessages[i]]
    /\ UNCHANGED <<messagesQuery, newMessageContent, sendingMessage, sendsInFlight,
                   optimistic, nSends, subPushes, consoleLog, markReadCalls, alerts>>
    /\ UNCHANGED exceptChat

NextChat ==
    \/ MessagesQueryAnswered
    \/ MessagesQueryArrives
    \/ \E c \in Contents : TypeMessage(c)
    \/ SubmitByButton
    \/ SubmitByEnter
    \/ \E f \in sendsInFlight : SendApplied(f)
    \/ \E f \in sendsInFlight : SendReturns(f)
    \/ \E f \in sendsInFlight : SendFails(f)
    \/ SubscriptionPush
    \/ \E from \in {Peer, Stranger} : OtherUserSends(from)
    \/ MarkAsReadApplied

(***************************************************************************)
(* SettingsPage: ProfileUpdateSection                                      *)
(***************************************************************************)

MaxSubmits == 2       \* handleSubmit calls of ProfileUpdateSection

NoFile == "none"
Files == {"a.png", "b.jpg"}

\* nhost.storage.getPublicUrl({ fileId })
PublicUrl(fileId) == <<"files", fileId>>

\* A submit that keeps the form's avatar URL whatever was uploaded.
FinalAvatarUrlKeepsForm(formUrl, fileMetadata) == formUrl

\* handleSubmit's finalAvatarUrl: the form's URL unless the upload returned metadata
FinalAvatarUrl(formUrl, fileMetadata) ==
    IF fileMetadata # <<>> THEN PublicUrl(fileMetadata[1]) ELSE formUrl

\* <input type="file" disabled={isUploadingAvatar || upsertLoading}>
AvatarInputDisabled == isUploadingAvatar \/ upsertLoading

\* <button type="submit" disabled={upsertLoading || profileLoading}>
SaveButtonDisabled == upsertLoading \/ settingsProfile = "loading"

\* ProfileUpdateSection renders its form once the profile has been loaded
SettingsFormRendered == settingsProfile = "loaded"

\* onCompleted: setInitialLoad(false) only under data.profiles.length > 0
OnCompletedInitialLoad(nProfiles) == IF nProfiles > 0 THEN FALSE ELSE initialLoad

\* What ProfileUpdateSection returns
ProfileSectionRender ==
    LET profileLoading == settingsProfile = "loading"
        profileError == settingsProfile = "error"
    IN  IF (profileLoading \/ initialLoad) /\ ~profileError THEN "Loading profile..."
        ELSE IF profileError THEN "Error loading profile"
        ELSE IF settingsProfile = "empty" THEN "Could not find your profile data."
        ELSE "form"

\* The section has just mounted: GET_MY_PROFILE_FOR_EDIT is in flight
SettingsInit ==
    /\ settingsProfile = "loading"
    /\ initialLoad = TRUE
    /\ serverAvatarUrl = PublicUrl(0)
    /\ storage = {0}
    /\ formAvatarUrl = <<>>
    /\ avatarFile = NoFile
    /\ isUploadingAvatar = FALSE
    /\ upsertLoading = FALSE
    /\ settingsFlows = {}
    /\ upsertLog = <<>>
    /\ settingsRefetch = 0
    /\ settingsAlert = "none"
    /\ nSubmits = 0

(* ---- actions ---- *)

\* useQuery(GET_MY_PROFILE_FOR_EDIT) completes: onCompleted fills the form, or the
\* query fails
ProfileForEditArrives ==
    /\ settingsProfile = "loading"
    /\ \/ /\ settingsProfile' = "loaded"
          /\ formAvatarUrl' = serverAvatarUrl
          /\ initialLoad' = OnCompletedInitialLoad(1)
       \/ /\ settingsProfile' = "empty"
          /\ initialLoad' = OnCompletedInitialLoad(0)
          /\ UNCHANGED formAvatarUrl
       \/ /\ settingsProfile' = "error"
          /\ UNCHANGED <<formAvatarUrl, initialLoad>>
    /\ UNCHANGED <<serverAvatarUrl, storage, avatarFile, isUploadingAvatar, upsertLoading,
                   settingsFlows, upsertLog, settingsRefetch, settingsAlert, nSubmits>>
    /\ UNCHANGED exceptSettings

\* handleAvatarFileChange: setAvatarFile(file)
HandleAvatarFileChange(file) ==
    /\ SettingsFormRendered
    /\ ~AvatarInputDisabled
    /\ file # avatarFile
    /\ avatarFile' = file
    /\ UNCHANGED <<settingsProfile, initialLoad, serverAvatarUrl, storage, formAvatarUrl,
                   isUploadingAvatar, upsertLoading, settingsFlows, upsertLog,
                   settingsRefetch, settingsAlert, nSubmits>>
    /\ UNCHANGED exceptSettings

\* handleSubmit up to its first await: with a file selected the upload is started,
\* without one upsertProfile is called with the form's avatar URL
SettingsHandleSubmit ==
    /\ SettingsFormRendered
    /\ ~SaveButtonDisabled
    /\ nSubmits' = nSubmits + 1
    /\ IF avatarFile # NoFile
       THEN /\ isUploadingAvatar' = TRUE
            /\ settingsFlows' = settingsFlows \cup
                   {[id |-> nSubmits + 1, file |-> avatarFile, pc |-> "upload",
                     url |-> formAvatarUrl, mid |-> 0]}
            /\ UNCHANGED <<upsertLoading, upsertLog>>
       ELSE /\ upsertLoading' = TRUE
            /\ upsertLog' = Append(upsertLog,
                   [file |-> NoFile, fileId |-> 0,
                    avatarUrl |-> FinalAvatarUrl(formAvatarUrl, <<>>)])
            /\ settingsFlows' = settingsFlows \cup
                   {[id |-> nSubmits + 1, file |-> NoFile, pc |-> "upsert",
                     url |-> FinalAvatarUrl(formAvatarUrl, <<>>),
                     mid |-> Len(upsertLog) + 1]}
            /\ UNCHANGED isUploadingAvatar
    /\ UNCHANGED <<settingsProfile, initialLoad, serverAvatarUrl, storage, formAvatarUrl, avatarFile,
                   settingsRefetch, settingsAlert>>
    /\ UNCHANGED exceptSettings

\* nhost.storage.upload returns fileMetadata: finalAvatarUrl becomes its public URL,
\* finally clears isUploadingAvatar, and upsertProfile is called
UploadSucceeds(f) ==
    /\ f \in settingsFlows
    /\ f.pc = "upload"
    /\ LET fileId == Cardinality(storage)
           final == FinalAvatarUrl(f.url, <<fileId>>)
       IN  /\ storage' = storage \cup {fileId}
           /\ upsertLog' = Append(upsertLog,
                  [file |-> f.file, fileId |-> fileId, avatarUrl |-> final])
           /\ settingsFlows' = (settingsFlows \ {f}) \cup
                  {[f EXCEPT !.pc = "upsert", !.url = final, !.mid = Len(upsertLog) + 1]}
    /\ isUploadingAvatar' = FALSE
    /\ upsertLoading' = TRUE
    /\ UNCHANGED <<settingsProfile, initialLoad, serverAvatarUrl, formAvatarUrl, avatarFile,
                   settingsRefetch, settingsAlert, nSubmits>>
    /\ UNCHANGED exceptSettings

\* nhost.storage.upload returns an error (or throws): the catch block alerts, clears
\* isUploadingAvatar and returns
UploadFails(f) ==
    /\ f \in settingsFlows
    /\ f.pc = "upload"
    /\ settingsFlows' = settingsFlows \ {f}
    /\ settingsAlert' = "Error uploading avatar"
    /\ isUploadingAvatar' = FALSE
    /\ UNCHANGED <<settingsProfile, initialLoad, serverAvatarUrl, storage, formAvatarUrl, avatarFile,
                   upsertLoading, upsertLog, settingsRefetch, nSubmits>>
    /\ UNCHANGED exceptSettings

\* upsertProfile resolves: success alert, the selected file is cleared and
\* refetchProfile is called
UpsertReturns(f) ==
    /\ f \in settingsFlows
    /\ f.pc = "upsert"
    /\ settingsFlows' = settingsFlows \ {f}
    /\ serverAvatarUrl' = f.url
    /\ upsertLoading' = IF f.mid = Len(upsertLog) THEN FALSE ELSE upsertLoading
    /\ settingsAlert' = "Profile updated successfully!"
    /\ avatarFile' = NoFile
    /\ settingsRefetch' = settingsRefetch + 1
    /\ UNCHANGED <<settingsProfile, initialLoad, storage, formAvatarUrl, isUploadingAvatar, upsertLog,
                   nSubmits>>
    /\ UNCHANGED exceptSettings

\* upsertProfile rejects: the catch block logs and alerts
UpsertFails(f) ==
    /\ f \in settingsFlows
    /\ f.pc = "upsert"
    /\ settingsFlows' = settingsFlows \ {f}
    /\ upsertLoading' = IF f.mid = Len(upsertLog) THEN FALSE ELSE upsertLoading
    /\ settingsAlert' = "Error updating profile"
    /\ UNCHANGED <<settingsProfile, initialLoad, serverAvatarUrl, storage, formAvatarUrl, avatarFile,
                   isUploadingAvatar, upsertLog, settingsRefetch, nSubmits>>
    /\ UNCHANGED exceptSettings

\* A refetchProfile request completes: onCompleted fills the form again
ProfileRefetchArrives ==
    /\ settingsRefetch > 0
    /\ settingsRefetch' = settingsRefetch - 1
    /\ formAvatarUrl' = serverAvatarUrl
    /\ initialLoad' = OnCompletedInitialLoad(1)
    /\ UNCHANGED <<settingsProfile, serverAvatarUrl, storage, avatarFile,
                   isUploadingAvatar, upsertLoading, settingsFlows, upsertLog,
                   settingsAlert, nSubmits>>
    /\ UNCHANGED exceptSettings

NextSettings ==
    \/ ProfileForEditArrives
    \/ \E file \in Files : HandleAvatarFileChange(file)
    \/ nSubmits < MaxSubmits /\ SettingsHandleSubmit
    \/ \E f \in settingsFlows : UploadSucceeds(f)
    \/ \E f \in settingsFlows : UploadFails(f)
    \/ \E f \in settingsFlows : UpsertReturns(f)
    \/ \E f \in settingsFlows : UpsertFails(f)
    \/ ProfileRefetchArrives

(***************************************************************************)
(* CreatePostForm                                                          *)
(***************************************************************************)

MaxPostSubmits == 1   \* handleSubmit calls of CreatePostForm
MaxSelected == 2      \* image files held by the form
MaxImagesAllowed == 5 \* the image input is disabled from this many files on

ImageNames == {"i1.png", "i2.png"}
VideoNames == {"v.mp4"}
PostTexts == {"", "post"}

\* An upload result that is never recorded.
PushNothing(urls, fileMetadata) == urls

\* uploadedImageUrls.push(publicUrl) when the upload returned fileMetadata
PushPublicUrl(urls, fileMetadata) ==
    IF fileMetadata # <<>> THEN Append(urls, PublicUrl(fileMetadata[1])) ELSE urls

\* contentText.trim() || null
TextOrNull(text) == IF Trim(text) # "" THEN <<Trim(text)>> ELSE <<>>

\* uploadedImageUrls.length > 0 ? uploadedImageUrls : null
UrlsOrNull(urls) == IF Len(urls) > 0 THEN <<urls>> ELSE <<>>

\* !contentText.trim() && imageFiles.length === 0 && !videoFile
PostIsEmpty == Trim(contentText) = "" /\ Len(imageFiles) = 0 /\ videoFile = NoFile

\* <input type="file" multiple disabled={imageFiles.length >= 5 || isUploading}>
ImageInputDisabled == Len(imageFiles) >= MaxImagesAllowed \/ isUploading

\* <input type="file" disabled={!!videoFile || isUploading}>
VideoInputDisabled == videoFile # NoFile \/ isUploading

\* <button type="submit" disabled={isUploading || creatingPost || (empty post)}>
PostButtonDisabled == isUploading \/ creatingPost \/ PostIsEmpty

\* The files a submit uploads, in order: every image, then the video
UploadQueue(images, video) == IF video # NoFile THEN Append(images, video) ELSE images

PostInit ==
    /\ contentText = ""
    /\ imageFiles = <<>>
    /\ videoFile = NoFile
    /\ isUploading = FALSE
    /\ creatingPost = FALSE
    /\ postFlows = {}
    /\ postStorage = {}
    /\ createLog = <<>>
    /\ serverPosts = <<>>
    /\ postAlert = "none"
    /\ onPostCreated = 0
    /\ nPostSubmits = 0

\* The createPost call of a flow whose uploads are all done
CreatePostCall(f) ==
    [contentText |-> TextOrNull(f.text),
     imageUrls |-> UrlsOrNull(f.imageUrls),
     videoUrl |-> f.videoUrl]

(* ---- actions ---- *)

\* The textarea's onChange: setContentText(e.target.value)
SetContentText(text) ==
    /\ text # contentText
    /\ contentText' = text
    /\ UNCHANGED <<imageFiles, videoFile, isUploading, creatingPost, postFlows,
                   postStorage, createLog, serverPosts, postAlert, onPostCreated,
                   nPostSubmits>>
    /\ UNCHANGED exceptPost

\* handleImageChange: the chosen file is added after the ones already held
HandleImageChange(file) ==
    /\ ~ImageInputDisabled
    /\ imageFiles' = Append(imageFiles, file)
    /\ UNCHANGED <<contentText, videoFile, isUploading, creatingPost, postFlows,
                   postStorage, createLog, serverPosts, postAlert, onPostCreated,
                   nPostSubmits>>
    /\ UNCHANGED exceptPost

\* handleImageChange with the files of one selection of the multiple input:
\* setImageFiles(prev => [...prev, ...filesArray])
HandleImageSelection(filesArray) ==
    /\ ~ImageInputDisabled
    /\ imageFiles' = imageFiles \o filesArray
    /\ UNCHANGED <<contentText, videoFile, isUploading, creatingPost, postFlows,
                   postStorage, createLog, serverPosts, postAlert, onPostCreated,
                   nPostSubmits>>
    /\ UNCHANGED exceptPost

\* removeImage(index)
RemoveImage(index) ==
    /\ ~isUploading
    /\ index \in 1..Len(imageFiles)
    /\ imageFiles' = [i \in 1..(Len(imageFiles) - 1) |->
                        IF i < index THEN imageFiles[i] ELSE imageFiles[i + 1]]
    /\ UNCHANGED <<contentText, videoFile, isUploading, creatingPost, postFlows,
                   postStorage, createLog, serverPosts, postAlert, onPostCreated,
                   nPostSubmits>>
    /\ UNCHANGED exceptPost

\* handleVideoChange: setVideoFile(file)
HandleVideoChange(file) ==
    /\ ~VideoInputDisabled
    /\ videoFile' = file
    /\ UNCHANGED <<contentText, imageFiles, isUploading, creatingPost, postFlows,
                   postStorage, createLog, serverPosts, postAlert, onPostCreated,
                   nPostSubmits>>
    /\ UNCHANGED exceptPost

\* removeVideo
RemoveVideo ==
    /\ ~isUploading
    /\ videoFile # NoFile
    /\ videoFile' = NoFile
    /\ UNCHANGED <<contentText, imageFiles, isUploading, creatingPost, postFlows,
                   postStorage, createLog, serverPosts, postAlert, onPostCreated,
                   nPostSubmits>>
    /\ UNCHANGED exceptPost

\* handleSubmit up to its first await: an empty post alerts and returns; otherwise
\* isUploading is set and the first upload starts, or, with nothing to upload,
\* createPost is called
PostHandleSubmit ==
    /\ ~PostButtonDisabled
    /\ nPostSubmits' = nPostSubmits + 1
    /\ IF PostIsEmpty
       THEN /\ postAlert' = "Please add some content, images, or a video to your post."
            /\ UNCHANGED <<isUploading, creatingPost, postFlows, createLog>>
       ELSE LET f == [id |-> nPostSubmits + 1, text |-> contentText,
                      images |-> imageFiles, video |-> videoFile,
                      done |-> 0, ids |-> <<>>, imageUrls |-> <<>>, videoUrl |-> <<>>,
                      pc |-> IF UploadQueue(imageFiles, videoFile) = <<>>
                             THEN "createPost" ELSE "upload"]
            IN  /\ isUploading' = TRUE
                /\ postFlows' = postFlows \cup {f}
                /\ IF f.pc = "createPost"
                   THEN /\ creatingPost' = TRUE
                        /\ createLog' = Append(createLog,
                               [call |-> CreatePostCall(f), images |-> f.images,
                                video |-> f.video, ids |-> f.ids])
                   ELSE UNCHANGED <<creatingPost, createLog>>
                /\ UNCHANGED postAlert
    /\ UNCHANGED <<contentText, imageFiles, videoFile, postStorage, serverPosts,
                   onPostCreated>>
    /\ UNCHANGED exceptPost

\* nhost.storage.upload returns fileMetadata for the file being uploaded: its public
\* URL is recorded and the next upload starts, or, after the last one, createPost is
\* called
PostUploadSucceeds(f) ==
    /\ f \in postFlows
    /\ f.pc = "upload"
    /\ LET queue == UploadQueue(f.images, f.video)
           fileId == Cardinality(postStorage) + 1
           isImage == f.done + 1 <= Len(f.images)
           g == [f EXCEPT !.done = f.done + 1,
                          !.ids = Append(f.ids, fileId),
                          !.imageUrls = IF isImage THEN PushPublicUrl(@, <<fileId>>) ELSE @,
                          !.videoUrl = IF isImage THEN @ ELSE <<PublicUrl(fileId)>>,
                          !.pc = IF f.done + 1 = Len(queue) THEN "createPost" ELSE "upload"]
       IN  /\ postStorage' = postStorage \cup {[id |-> fileId, file |-> queue[f.done + 1]]}
           /\ postFlows' = (postFlows \ {f}) \cup {g}
           /\ IF g.pc = "createPost"
              THEN /\ creatingPost' = TRUE
                   /\ createLog' = Append(createLog,
                          [call |-> CreatePostCall(g), images |-> g.images,
                           video |-> g.video, ids |-> g.ids])
              ELSE UNCHANGED <<creatingPost, createLog>>
    /\ UNCHANGED <<contentText, imageFiles, videoFile, isUploading, serverPosts, postAlert,
                   onPostCreated, nPostSubmits>>
    /\ UNCHANGED exceptPost

\* nhost.storage.upload returns an error: the catch block logs and alerts, finally
\* clears isUploading
PostUploadFails(f) ==
    /\ f \in postFlows
    /\ f.pc = "upload"
    /\ postFlows' = postFlows \ {f}
    /\ postAlert' = "Failed to create post"
    /\ isUploading' = FALSE
    /\ UNCHANGED <<contentText, imageFiles, videoFile, creatingPost, postStorage,
                   createLog, serverPosts, onPostCreated, nPostSubmits>>
    /\ UNCHANGED exceptPost

\* createPost resolves: the form is reset, onPostCreated() is called, finally clears
\* isUploading
CreatePostReturns(f) ==
    /\ f \in postFlows
    /\ f.pc = "createPost"
    /\ postFlows' = postFlows \ {f}
    /\ serverPosts' = Append(serverPosts, CreatePostCall(f))
    /\ creatingPost' = FALSE
    /\ contentText' = ""
    /\ imageFiles' = <<>>
    /\ videoFile' = NoFile
    /\ onPostCreated' = onPostCreated + 1
    /\ isUploading' = FALSE
    /\ UNCHANGED <<postStorage, createLog, postAlert, nPostSubmits>>
    /\ UNCHANGED exceptPost

\* createPost rejects: the catch block logs and alerts, finally clears isUploading
CreatePostFails(f) ==
    /\ f \in postFlows
    /\ f.pc = "createPost"
    /\ postFlows' = postFlows \ {f}
    /\ creatingPost' = FALSE
    /\ postAlert' = "Failed to create post"
    /\ isUploading' = FALSE
    /\ UNCHANGED <<contentText, imageFiles, videoFile, postStorage, createLog,
                   serverPosts, onPostCreated, nPostSubmits>>
    /\ UNCHANGED exceptPost

NextPost ==
    \/ \E text \in PostTexts : SetContentText(text)
    \/ \E file \in ImageNames : Len(imageFiles) < MaxSelected /\ HandleImageChange(file)
    \/ \E index \in 1..MaxImagesAllowed : RemoveImage(index)
    \/ \E file \in VideoNames : HandleVideoChange(file)
    \/ RemoveVideo
    \/ nPostSubmits < MaxPostSubmits /\ PostHandleSubmit
    \/ \E f \in postFlows : PostUploadSucceeds(f)
    \/ \E f \in postFlows : PostUploadFails(f)
    \/ \E f \in postFlows : CreatePostReturns(f)
    \/ \E f \in postFlows : CreatePostFails(f)

MaxPicked == 3        \* files chosen in one selection of the image input

\* The selections of the image input: one to MaxPicked files
ImageSelections ==
    UNION {[1..n -> ImageNames] : n \in 1..MaxPicked}

\* The image input and the remove buttons of the previews alone
NextPostImages ==
    \/ \E filesArray \in ImageSelections : HandleImageSelection(filesArray)
    \/ \E index \in 1..(MaxImagesAllowed + MaxPicked) : RemoveImage(index)

(***************************************************************************)
(* FeedPage                                                                *)
(***************************************************************************)

\* limit of GET_FEED_POSTS, and the page size the Load More button tests
PageLimit == 10

\* Model bound: posts written while the page is open
MaxNewPosts == 2

\* Sizes of the posts table when the page is mounted
FeedSizes == {0, PageLimit, PageLimit + 2, 2 * PageLimit}
\* Article lists the news service answers with
NewsAnswers == {<<>>, <<"n1", "n2">>}
NoNewsError == "null"

Min(a, b) == IF a < b THEN a ELSE b

\* posts(order_by: {created_at: desc}, limit, offset) over rows 1..count,
\* row ids increasing with created_at
FeedPage(count, limit, offset) ==
    IF offset >= count THEN <<>>
    ELSE [i \in 1..Min(limit, count - offset) |-> count - offset - i + 1]

\* posts = postsData?.posts || []
Posts == IF postsQuery.data = NoData THEN <<>> ELSE postsQuery.data[1]

\* A load-more that asks for the first page again.
FetchMoreOffsetZero(posts) == 0

\* fetchMore variables: offset: postsData.posts.length
FetchMoreOffset(posts) == Len(posts)

\* updateQuery of fetchMore: prev when nothing was fetched, else prev then fetched
UpdateQuery(prev, fetchMoreResult) ==
    IF Len(fetchMoreResult) = 0 THEN prev ELSE prev \o fetchMoreResult

\* the early return of loadMorePosts
LoadMoreReturnsEarly ==
    postsQuery.loading \/ isLoadingMorePosts \/ postsQuery.data = NoData

\* the condition under which the Load More button is rendered
LoadMoreButtonRendered ==
    /\ ~postsQuery.loading
    /\ ~isLoadingMorePosts
    /\ postsQuery.data # NoData
    /\ Len(Posts) > 0
    /\ Len(Posts) % PageLimit = 0

FeedInit ==
    /\ feedCount \in FeedSizes
    /\ postsQuery = [loading |-> TRUE, error |-> FALSE, data |-> NoData]
    /\ feedRequests = {[kind |-> "query", offset |-> 0, id |-> 0]}
    /\ isLoadingMorePosts = FALSE
    /\ interestsQuery = "loading"
    /\ newsArticles = <<>>
    /\ newsLoading = FALSE
    /\ newsError = NoNewsError
    /\ newsFetch = FALSE
    /\ fetchMoreLog = <<>>
    /\ nRefetches = 0
    /\ nNewPosts = 0

(* ---- actions ---- *)

\* The posts query, or a refetch of it, is answered with the first page
PostsQueryArrives(r) ==
    /\ r \in feedRequests
    /\ r.kind \in {"query", "refetch"}
    /\ feedRequests' = feedRequests \ {r}
    /\ postsQuery' = [loading |-> FALSE, error |-> FALSE,
                      data |-> <<FeedPage(feedCount, PageLimit, 0)>>]
    /\ UNCHANGED <<feedCount, isLoadingMorePosts, interestsQuery, newsArticles,
                   newsLoading, newsError, newsFetch, fetchMoreLog, nRefetches, nNewPosts>>
    /\ UNCHANGED exceptFeed

\* The posts query, or a refetch of it, fails; data already held is kept
PostsQueryFails(r) ==
    /\ r \in feedRequests
    /\ r.kind \in {"query", "refetch"}
    /\ feedRequests' = feedRequests \ {r}
    /\ postsQuery' = [postsQuery EXCEPT !.loading = FALSE, !.error = TRUE]
    /\ UNCHANGED <<feedCount, isLoadingMorePosts, interestsQuery, newsArticles,
                   newsLoading, newsError, newsFetch, fetchMoreLog, nRefetches, nNewPosts>>
    /\ UNCHANGED exceptFeed

\* loadMorePosts, called by a click on the Load More button
LoadMorePosts ==
    /\ LoadMoreButtonRendered
    /\ ~LoadMoreReturnsEarly
    /\ isLoadingMorePosts' = TRUE
    /\ feedRequests' = feedRequests \cup
                         {[kind |-> "fetchMore", offset |-> FetchMoreOffset(Posts), id |-> 0]}
    /\ fetchMoreLog' = <<[offset |-> FetchMoreOffset(Posts), loaded |-> Len(Posts)]>>
    /\ postsQuery' = [postsQuery EXCEPT !.loading = TRUE]
    /\ UNCHANGED <<feedCount, interestsQuery, newsArticles, newsLoading, newsError,
                   newsFetch, nRefetches, nNewPosts>>
    /\ UNCHANGED exceptFeed

\* fetchMore is answered: updateQuery runs
FetchMoreArrives(r) ==
    /\ r \in feedRequests
    /\ r.kind = "fetchMore"
    /\ feedRequests' = feedRequests \ {r}
    /\ isLoadingMorePosts' = FALSE
    /\ postsQuery' = [postsQuery EXCEPT
                        !.loading = FALSE,
                        !.data = <<UpdateQuery(Posts,
                                               FeedPage(feedCount, PageLimit, r.offset))>>]
    /\ UNCHANGED <<feedCount, interestsQuery, newsArticles, newsLoading, newsError,
                   newsFetch, fetchMoreLog, nRefetches, nNewPosts>>
    /\ UNCHANGED exceptFeed

\* fetchMore rejects: the catch of loadMorePosts runs
FetchMoreFails(r) ==
    /\ r \in feedRequests
    /\ r.kind = "fetchMore"
    /\ feedRequests' = feedRequests \ {r}
    /\ isLoadingMorePosts' = FALSE
    /\ postsQuery' = [postsQuery EXCEPT !.loading = FALSE]
    /\ UNCHANGED <<feedCount, interestsQuery, newsArticles, newsLoading, newsError,
                   newsFetch, fetchMoreLog, nRefetches, nNewPosts>>
    /\ UNCHANGED exceptFeed

\* A post is created in the form of this page: handlePostCreated refetches
HandlePostCreated ==
    /\ feedCount' = feedCount + 1
    /\ nNewPosts' = nNewPosts + 1
    /\ nRefetches' = nRefetches + 1
    /\ feedRequests' = feedRequests \cup
                         {[kind |-> "refetch", offset |-> 0, id |-> nRefetches + 1]}
    /\ postsQuery' = [postsQuery EXCEPT !.loading = TRUE]
    /\ UNCHANGED <<isLoadingMorePosts, interestsQuery, newsArticles, newsLoading,
                   newsError, newsFetch, fetchMoreLog>>
    /\ UNCHANGED exceptFeed

\* Another user creates a post
OtherUserPosts ==
    /\ feedCount' = feedCount + 1
    /\ nNewPosts' = nNewPosts + 1
    /\ UNCHANGED <<postsQuery, feedRequests, isLoadingMorePosts, interestsQuery,
                   newsArticles, newsLoading, newsError, newsFetch, fetchMoreLog,
                   nRefetches>>
    /\ UNCHANGED exceptFeed

\* The interests query settles and the fetchNews effect runs on its data
InterestsArrive(result) ==
    /\ interestsQuery = "loading"
    /\ interestsQuery' = result
    /\ IF result = "some"
       THEN /\ newsLoading' = TRUE
            /\ newsError' = NoNewsError
            /\ newsFetch' = TRUE
       ELSE UNCHANGED <<newsLoading, newsError, newsFetch>>
    /\ UNCHANGED <<feedCount, postsQuery, feedRequests, isLoadingMorePosts,
                   newsArticles, fetchMoreLog, nRefetches, nNewPosts>>
    /\ UNCHANGED exceptFeed

\* A news failure that also marks the posts query failed.
NewsFetchFailsPosts ==
    /\ newsFetch
    /\ newsFetch' = FALSE
    /\ newsError' = "failed"
    /\ newsLoading' = FALSE
    /\ postsQuery' = [postsQuery EXCEPT !.error = TRUE]
    /\ UNCHANGED <<feedCount, feedRequests, isLoadingMorePosts, interestsQuery,
                   newsArticles, fetchMoreLog, nRefetches, nNewPosts>>
    /\ UNCHANGED exceptFeed

\* fetchNews: the response is ok
NewsFetchSucceeds(articles) ==
    /\ newsFetch
    /\ newsFetch' = FALSE
    /\ newsArticles' = articles
    /\ newsLoading' = FALSE
    /\ UNCHANGED <<feedCount, postsQuery, feedRequests, isLoadingMorePosts,
                   interestsQuery, newsError, fetchMoreLog, nRefetches, nNewPosts>>
    /\ UNCHANGED exceptFeed

\* fetchNews: fetch rejects or the response is not ok
NewsFetchFails ==
    /\ newsFetch
    /\ newsFetch' = FALSE
    /\ newsError' = "failed"
    /\ newsLoading' = FALSE
    /\ UNCHANGED <<feedCount, postsQuery, feedRequests, isLoadingMorePosts,
                   interestsQuery, newsArticles, fetchMoreLog, nRefetches, nNewPosts>>
    /\ UNCHANGED exceptFeed

NextFeed ==
    \/ \E r \in feedRequests : PostsQueryArrives(r)
    \/ \E r \in feedRequests : PostsQueryFails(r)
    \/ LoadMorePosts
    \/ \E r \in feedRequests : FetchMoreArrives(r)
    \/ \E r \in feedRequests : FetchMoreFails(r)
    \/ /\ nNewPosts < MaxNewPosts
       /\ HandlePostCreated
    \/ /\ nNewPosts < MaxNewPosts
       /\ OtherUserPosts
    \/ \E result \in {"none", "some", "error"} : InterestsArrive(result)
    \/ \E articles \in NewsAnswers : NewsFetchSucceeds(articles)
    \/ NewsFetchFails

(***************************************************************************)
(* DashboardPage with its Sidebar and ChatListPage                         *)
(***************************************************************************)

MaxConversations == 2   \* rows a GET_MY_CONVERSATIONS answer holds

\* null (useState<string | null>(null)) and an absent profile or username
Null == "<null>"

\* JavaScript truthiness of a string | null
Truthy(v) == v # Null /\ v # ""

\* navItems of the Sidebar and its Settings entry
SidebarViews == {"swipe", "saved", "chat", "feed", "groups", "settings"}

\* The other users a match row can carry: users.id is never empty, the
\* profile's username may be absent or empty, displayName may be empty
OtherUsers ==
    [id: {"u1", "u2"}, username: {Null, "", "ana"}, displayName: {"", "Ana B"}]

\* A ChatListPage that passes the username || displayName without the id.
OtherUserNameNoId(otherUser) ==
    IF Truthy(otherUser.username) THEN otherUser.username ELSE otherUser.displayName

\* ChatListPage: otherUser.profile?.username || otherUser.displayName || otherUser.id
OtherUserName(otherUser) ==
    IF Truthy(otherUser.username) THEN otherUser.username
    ELSE IF Truthy(otherUser.displayName) THEN otherUser.displayName
    ELSE otherUser.id

\* renderActiveView of DashboardPage
RenderActiveView ==
    IF activeView = "individualChat" /\ Truthy(chatTargetUserId)
                                     /\ Truthy(chatTargetUserName)
    THEN "IndividualChatPage"
    ELSE CASE activeView = "swipe" -> "SwipePage"
           [] activeView = "saved" -> "SavedProfilesPage"
           [] activeView = "chat" -> "ChatListPage"
           [] activeView = "feed" -> "FeedPage"
           [] activeView = "groups" -> "GroupsViewPlaceholder"
           [] activeView = "settings" -> "SettingsPage"
           [] OTHER -> "SwipePage"

ConversationsUnmounted == [status |-> "unmounted", matches |-> {}]
ConversationsLoading == [status |-> "loading", matches |-> {}]

\* The query of ChatListPage after a change of view: the page fetches when
\* it mounts (network-only) and keeps its query while it stays mounted
ConversationsAfter(view) ==
    IF view # "chat" THEN ConversationsUnmounted
    ELSE IF activeView = "chat" THEN conversationsQuery
    ELSE ConversationsLoading

\* DashboardPage has just mounted
DashInit ==
    /\ activeView = "swipe"
    /\ chatTargetUserId = Null
    /\ chatTargetUserName = Null
    /\ isMobileSidebarOpen = FALSE
    /\ conversationsQuery = ConversationsUnmounted

\* toggleMobileSidebar
ToggleMobileSidebar ==
    /\ isMobileSidebarOpen' = ~isMobileSidebarOpen
    /\ UNCHANGED <<activeView, chatTargetUserId, chatTargetUserName, conversationsQuery>>
    /\ UNCHANGED exceptDash

\* handleResize: the window became at least 768 pixels wide
HandleResize ==
    /\ isMobileSidebarOpen
    /\ isMobileSidebarOpen' = FALSE
    /\ UNCHANGED <<activeView, chatTargetUserId, chatTargetUserName, conversationsQuery>>
    /\ UNCHANGED exceptDash

\* handleSetActiveView(view), called by the Sidebar with one of its views
HandleSetActiveView(view) ==
    /\ IF view # "individualChat"
       THEN chatTargetUserId' = Null /\ chatTargetUserName' = Null
       ELSE UNCHANGED <<chatTargetUserId, chatTargetUserName>>
    /\ activeView' = view
    /\ isMobileSidebarOpen' = FALSE
    /\ conversationsQuery' = ConversationsAfter(view)
    /\ UNCHANGED exceptDash

\* GET_MY_CONVERSATIONS answers with the viewer's matches
ConversationsArrive(matches) ==
    /\ conversationsQuery.status = "loading"
    /\ conversationsQuery' = [status |-> "loaded", matches |-> matches]
    /\ UNCHANGED <<activeView, chatTargetUserId, chatTargetUserName, isMobileSidebarOpen>>
    /\ UNCHANGED exceptDash

\* GET_MY_CONVERSATIONS fails
ConversationsFail ==
    /\ conversationsQuery.status = "loading"
    /\ conversationsQuery' = [status |-> "error", matches |-> {}]
    /\ UNCHANGED <<activeView, chatTargetUserId, chatTargetUserName, isMobileSidebarOpen>>
    /\ UNCHANGED exceptDash

\* A click on a conversation of ChatListPage:
\* onSelectConversation(otherUser.id, otherUserName) = handleSelectConversation
HandleSelectConversation(otherUser) ==
    /\ RenderActiveView = "ChatListPage"
    /\ conversationsQuery.status = "loaded"
    /\ otherUser \in conversationsQuery.matches
    /\ chatTargetUserId' = otherUser.id
    /\ chatTargetUserName' = OtherUserName(otherUser)
    /\ activeView' = "individualChat"
    /\ isMobileSidebarOpen' = FALSE
    /\ conversationsQuery' = ConversationsUnmounted
    /\ UNCHANGED exceptDash

\* The back button of IndividualChatPage: handleBackToChatList
HandleBackToChatList ==
    /\ RenderActiveView = "IndividualChatPage"
    /\ chatTargetUserId' = Null
    /\ chatTargetUserName' = Null
    /\ activeView' = "chat"
    /\ conversationsQuery' = ConversationsLoading
    /\ UNCHANGED isMobileSidebarOpen
    /\ UNCHANGED exceptDash

NextDash ==
    \/ ToggleMobileSidebar
    \/ HandleResize
    \/ \E view \in SidebarViews : HandleSetActiveView(view)
    \/ \E matches \in SUBSET OtherUsers :
          /\ Cardinality(matches) <= MaxConversations
          /\ ConversationsArrive(matches)
    \/ ConversationsFail
    \/ \E otherUser \in OtherUsers : HandleSelectConversation(otherUser)
    \/ HandleBackToChatList

(***************************************************************************)
(* UserProfileSetupPage: the username field and its suggestion             *)
(* Strings are sequences of characters.                                    *)
(***************************************************************************)

MaxEdits == 3          \* handleChange calls on the username field
\* The values of Math.floor(Math.random() * 100) explored
Randoms == {0, 7, 42}

DigitChars == <<"0", "1", "2", "3", "4", "5", "6", "7", "8", "9">>

\* String(n) for 0 <= n < 100
NumberToString(n) ==
    IF n < 10 THEN <<DigitChars[n + 1]>>
    ELSE <<DigitChars[(n \div 10) + 1], DigitChars[(n % 10) + 1]>>

\* String.prototype.toLowerCase on one character
LowerChar(c) ==
    CASE c = "A" -> "a"
      [] c = "B" -> "b"
      [] OTHER -> c

ToLowerCase(s) == [i \in 1..Len(s) |-> LowerChar(s[i])]

\* s.split(sep)[0]: the characters before the first separator
SplitFirst(s, sep) ==
    LET hits == {i \in 1..Len(s) : s[i] = sep}
    IN  IF hits = {} THEN s
        ELSE SubSeq(s, 1, (CHOOSE i \in hits : \A j \in hits : i <= j) - 1)

IsAlnum(c) == c \in {"a", "b", "n", "x", "z"} \cup {DigitChars[i] : i \in 1..10}

\* s.replace(/[^a-z0-9]/gi, '')
StripNonAlnum(s) == SelectSeq(s, IsAlnum)

\* useUserData() returns null
NoUserData == [null |-> TRUE]

\* useUserData(): displayName and email of the signed-in user
SetupUsers ==
    [displayName: {<<>>, <<"A", "n", " ", "B">>, <<" ", "B">>},
     email: {<<>>, <<"a", ".", "B", "@", "x">>}]

\* The values typed into the username field
TypedUsernames == {<<>>, <<"z">>}

\* The effect's suggestedUsername
SuggestedUsername(user, random) ==
    IF user.displayName # <<>>
    THEN ToLowerCase(SplitFirst(user.displayName, " ")) \o NumberToString(random)
    ELSE IF user.email # <<>>
    THEN StripNonAlnum(ToLowerCase(SplitFirst(user.email, "@"))) \o NumberToString(random)
    ELSE <<>>

\* The effect's condition: user && !formData.username
SuggestionEffectApplies == setupUser # NoUserData /\ formUsername = <<>>

\* The dependencies [user, formData.username] of the effect
SuggestionEffectDeps == <<setupUser, formUsername>>

\* React runs the effect after a render in which its dependencies changed
SuggestionEffectPending == effectDeps # SuggestionEffectDeps

\* UserProfileSetupPage has just mounted: the effect has not run yet
SetupFormInit ==
    /\ setupUser \in {NoUserData} \cup SetupUsers
    /\ formUsername = <<>>
    /\ effectDeps = <<>>
    /\ nSuggestions = 0
    /\ nEdits = 0

\* useUserData() returns the user once the session is known
UserDataArrives(user) ==
    /\ setupUser = NoUserData
    /\ ~SuggestionEffectPending
    /\ setupUser' = user
    /\ UNCHANGED <<formUsername, effectDeps, nSuggestions, nEdits>>
    /\ UNCHANGED exceptSetupForm

\* The useEffect on [user, formData.username]
UsernameSuggestionEffect(random) ==
    /\ SuggestionEffectPending
    /\ effectDeps' = SuggestionEffectDeps
    /\ LET suggestedUsername == SuggestedUsername(setupUser, random)
       IN  IF SuggestionEffectApplies /\ suggestedUsername # <<>>
           THEN /\ formUsername' = suggestedUsername
                /\ nSuggestions' = nSuggestions + 1
           ELSE UNCHANGED <<formUsername, nSuggestions>>
    /\ UNCHANGED <<setupUser, nEdits>>
    /\ UNCHANGED exceptSetupForm

\* handleChange on the username input: setFormData({...prev, username: value})
HandleUsernameChange(value) ==
    /\ ~SuggestionEffectPending
    /\ value # formUsername
    /\ formUsername' = value
    /\ nEdits' = nEdits + 1
    /\ UNCHANGED <<setupUser, effectDeps, nSuggestions>>
    /\ UNCHANGED exceptSetupForm

NextSetupForm ==
    \/ \E user \in SetupUsers : UserDataArrives(user)
    \/ \E random \in Randoms : UsernameSuggestionEffect(random)
    \/ \E value \in TypedUsernames :
          nEdits < MaxEdits /\ HandleUsernameChange(value)

(***************************************************************************)
(* Specifications                                                          *)
(***************************************************************************)

\* The other pages stay as mounted while one page is explored
FeedAtRest == FeedInit /\ feedCount = PageLimit
RouteAtRest == RouteInit /\ location.pathname = "/dashboard" /\ serverProfile = "complete"
SwipeAtRest == SwipeInit /\ consistency = "strong" /\ savedUnique

SetupFormAtRest == SetupFormInit /\ setupUser = NoUserData

PagesAtRest == SettingsInit /\ PostInit /\ FeedAtRest /\ DashInit /\ SetupFormAtRest

InitRoute == RouteInit /\ SwipeAtRest /\ ChatInit /\ PagesAtRest
InitSwipe == RouteAtRest /\ SwipeInit /\ ChatInit /\ PagesAtRest
InitMatch == InitSwipe /\ savedUnique
InitChat == RouteAtRest /\ SwipeAtRest /\ ChatInit /\ PagesAtRest
InitSettings == RouteAtRest /\ SwipeAtRest /\ ChatInit /\ SettingsInit /\ PostInit /\ FeedAtRest /\ DashInit /\ SetupFormAtRest
InitPost == RouteAtRest /\ SwipeAtRest /\ ChatInit /\ SettingsInit /\ PostInit /\ FeedAtRest /\ DashInit /\ SetupFormAtRest
InitFeed == RouteAtRest /\ SwipeAtRest /\ ChatInit /\ SettingsInit /\ PostInit /\ FeedInit /\ DashInit /\ SetupFormAtRest
InitDash == RouteAtRest /\ SwipeAtRest /\ ChatInit /\ SettingsInit /\ PostInit /\ FeedAtRest /\ DashInit /\ SetupFormAtRest
InitSetupForm == RouteAtRest /\ SwipeAtRest /\ ChatInit /\ SettingsInit /\ PostInit /\ FeedAtRest /\ DashInit /\ SetupFormInit

SpecRoute == InitRoute /\ [][NextRoute]_vars

\* Effects scheduled by React and responses owed by the network do happen; what the
\* user clicks is left open.
RouteFairness ==
    /\ WF_vars(AuthResolved)
    /\ WF_vars(RedirectToLogin)
    /\ WF_vars(RedirectToSetup)
    /\ WF_vars(ProfileQueryResolves)
    /\ WF_vars(SignInSettles)
SpecRouteFair == InitRoute /\ [][NextRoute]_vars /\ RouteFairness
SpecSwipe == InitSwipe /\ [][NextSwipe]_vars
SpecMatch == InitMatch /\ [][NextMatch]_vars
SpecSwipeThrough == InitMatch /\ [][NextSwipeThrough]_vars
SpecChat == InitChat /\ [][NextChat]_vars
SpecSettings == InitSettings /\ [][NextSettings]_vars
\* Every request of the section is answered
SettingsFairness ==
    /\ WF_vars(ProfileForEditArrives)
    /\ WF_vars(ProfileRefetchArrives)
    /\ \A id \in 1..MaxSubmits :
          WF_vars(\E f \in settingsFlows :
                     f.id = id /\ (UploadSucceeds(f) \/ UploadFails(f)
                                     \/ UpsertReturns(f) \/ UpsertFails(f)))
SpecSettingsFair == InitSettings /\ [][NextSettings]_vars /\ SettingsFairness
SpecPost == InitPost /\ [][NextPost]_vars
SpecPostImages == InitPost /\ [][NextPostImages]_vars
SpecFeed == InitFeed /\ [][NextFeed]_vars
SpecDash == InitDash /\ [][NextDash]_vars
SpecSetupForm == InitSetupForm /\ [][NextSetupForm]_vars

(***************************************************************************)
(* Properties of the routes, the gate and the login page (SpecRoute)       *)
(***************************************************************************)

GateBlockedScreens == {"ProfileLoading", "ProfileError", "NavigateSetup"}

\* C1: for an authenticated user on a protected route, unless the profile-status
\* query has returned a row with profile_complete = true, the child route element
\* is not rendered: the gate renders the loading text, the error text or the
\* redirect to /profile-setup.
C1_GateBlocksIncomplete ==
    (/\ IsAuthenticated
     /\ location.pathname \in ProtectedPaths
     /\ ~(profileQuery = "done" /\ profileData = "complete"))
    => Screen \in GateBlockedScreens

C1_Witness ==
    /\ IsAuthenticated
    /\ location.pathname = "/dashboard"
    /\ profileQuery = "done"
    /\ profileData = "incomplete"
    /\ Screen = "NavigateSetup"

\* C2: an authenticated user whose profile is missing or incomplete and who is at
\* /profile-setup, once the gate has its answer, eventually has the
\* UserProfileSetupPage form rendered unless the user leaves /profile-setup (the gate
\* does not keep redirecting /profile-setup to itself).
C2_SetupFormEventually ==
    (/\ IsAuthenticated
     /\ location.pathname = "/profile-setup"
     /\ profileQuery = "done"
     /\ profileData \in {"none", "incomplete"})
    ~> (Screen = "UserProfileSetupPage" \/ location.pathname # "/profile-setup")

\* C3: a successful email/password sign-in that needs no email verification
\* navigates, with replace, to the pathname ProtectedRoute recorded in state.from
\* when it redirected to /login, and to /dashboard when nothing was recorded; a
\* recorded state.from is the location ProtectedRoute redirected from.
C3_LoginNavigatesToFrom ==
    /\ [][(/\ signIn.isLoading
           /\ ~signIn'.isLoading
           /\ signIn'.isSuccess
           /\ ~signIn'.needsEmailVerification)
          => LET target == IF location.from # NoFrom THEN location.from
                           ELSE "/dashboard"
             IN  /\ location'.pathname = target
                 /\ lastNav' = [by |-> "LoginPage", to |-> target, replace |-> TRUE]]_vars
    /\ [][(/\ location' # location
           /\ location'.pathname = "/login"
           /\ location'.from # NoFrom)
          => /\ Screen = "NavigateLogin"
             /\ location.pathname \in ProtectedPaths
             /\ location'.from = location.pathname]_vars

C3_Witness ==
    /\ signIn.isSuccess
    /\ ~signIn.needsEmailVerification
    /\ lastNav = [by |-> "LoginPage", to |-> "/profile-setup", replace |-> TRUE]
    /\ location.pathname = "/profile-setup"

\* An email/password sign-in attempt settles in this step
SignInAttemptSettles == signIn.isLoading /\ ~signIn'.isLoading /\ signIn' # SignInIdle

\* C19: a sign-in attempt that reports needsEmailVerification leaves the user on
\* /login: the step in which it settles changes neither the location nor the last
\* navigation; a settling attempt navigates only when it is a success without
\* needsEmailVerification, and then to the requested route.
C19_NoNavigationBeforeVerification ==
    [][SignInAttemptSettles
         => /\ signIn'.needsEmailVerification
                => /\ location' = location
                   /\ location'.pathname = "/login"
                   /\ lastNav' = lastNav
            /\ (location' # location \/ lastNav' # lastNav)
                => /\ signIn'.isSuccess
                   /\ ~signIn'.needsEmailVerification
                   /\ location'.pathname = LoginFrom(location)]_vars

\* C19's case: an attempt made after a redirect from /dashboard has reported
\* success together with needsEmailVerification, and the user is still on /login.
C19_Witness ==
    /\ signIn.isSuccess
    /\ signIn.needsEmailVerification
    /\ location = [pathname |-> "/login", from |-> "/dashboard"]
    /\ authStatus = "signedOut"


C21_LandingIsPublic ==
    /\ [](location.pathname = "/"
            => /\ Screen = "LandingPage"
               /\ ShowsBrandName(Screen))
    /\ [][location.pathname = "/" => ~RedirectToLogin /\ ~RedirectToSetup]_vars

\* C21's case: a signed-in user whose profile is incomplete is at "/".
C21_Witness ==
    /\ location.pathname = "/"
    /\ authStatus = "signedIn"
    /\ serverProfile = "incomplete"


\* The elements of the protected routes
ProtectedElements == {"DashboardPage", "UserProfileSetupPage"}

\* C22: ProtectedRoute renders a protected route's element only for an
\* authenticated user, never while the status is loading or the user is signed
\* out; at a protected route a signed-out user gets the redirect, which leads to
\* /login with the requested pathname in state.from.
C22_ProtectedOnlyWhenAuthenticated ==
    /\ [](/\ Screen \in ProtectedElements => authStatus = "signedIn"
          /\ (location.pathname \in ProtectedPaths /\ authStatus = "signedOut")
               => Screen = "NavigateLogin"
          /\ (location.pathname \in ProtectedPaths /\ authStatus = "loading")
               => Screen = "AuthLoading")
    /\ [][RedirectToLogin
            => /\ location.pathname \in ProtectedPaths
               /\ authStatus = "signedOut"
               /\ location' = [pathname |-> "/login", from |-> location.pathname]]_vars

\* C22's case: a signed-out request for /profile-setup has been redirected to
\* /login, which holds the requested pathname.
C22_Witness ==
    /\ authStatus = "signedOut"
    /\ location = [pathname |-> "/login", from |-> "/profile-setup"]
    /\ lastNav = [by |-> "ProtectedRoute", to |-> "/login", replace |-> TRUE]


(***************************************************************************)
(* Properties of the swipe page (SpecSwipe, SpecMatch)                     *)
(***************************************************************************)

EmptyStates == {"NoMoreProfiles", "FetchingMore"}
SwipeClicked(u) == nSwipes'[u] = nSwipes[u] + 1
SaveClicked(u) == nSaves'[u] = nSaves[u] + 1
OnLastCard(u) == currentIndex[u] + 1 >= Len(profiles[u])

\* C4: a swipe made on the last loaded card calls refetchCandidates and leaves
\* currentIndex unchanged, and while a candidates request is in flight over a
\* non-empty list the card stays rendered: neither the 'No More Profiles' nor the
\* 'Fetching more...' state is rendered before the result arrives.
C4_LastCardRefetches ==
    /\ [][\A u \in Viewers :
            (SwipeClicked(u) /\ OnLastCard(u))
            => /\ candQuery'[u].inFlight = candQuery[u].inFlight + 1
               /\ currentIndex'[u] = currentIndex[u]
               /\ "Card" \in SwipeScreen(u)'
               /\ SwipeScreen(u)' \cap EmptyStates = {}]_vars
    /\ [](\A u \in Viewers :
            (candQuery[u].inFlight > 0 /\ Len(profiles[u]) > 0)
            => /\ "Card" \in SwipeScreen(u)
               /\ SwipeScreen(u) \cap EmptyStates = {})

C4_Witness ==
    /\ HasCurrentProfile("A")
    /\ OnLastCard("A")
    /\ CurrentProfile("A") \in sessionSwiped["A"]
    /\ candQuery["A"].inFlight > 0
    /\ SwipeScreen("A") = {"Card"}

\* C5: the profile shown as the current card is never the viewer's own profile and
\* never a profile the viewer has already swiped in this session.
C5_CardNeverSwipedOrSelf ==
    \A u \in Viewers :
        HasCurrentProfile(u)
        => /\ CurrentProfile(u) # u
           /\ CurrentProfile(u) \notin sessionSwiped[u]

\* C6: showMatchModal becomes true only when a handleSwipe call with action 'like',
\* whose recordSwipe has inserted its row, gets a checkForMatch result holding a
\* reciprocal 'like' of the swiped user; the modal then names that user.
C6_ModalOnlyOnReciprocalLike ==
    [][\A u \in Viewers :
         (~showMatchModal[u] /\ showMatchModal'[u])
         => \E f \in BagToSet(swipeFlows[u]) :
              /\ f.action = "like"
              /\ f.pc = "checkForMatch"
              /\ CopiesIn(f, swipeFlows'[u]) = CopiesIn(f, swipeFlows[u]) - 1
              /\ [swiper |-> u, swiped |-> f.target, action |-> "like"] \in swipes
              /\ [swiper |-> f.target, swiped |-> u, action |-> "like"] \in swipes
              /\ matchedUserName'[u] = f.target]_vars

C6_Witness ==
    /\ showMatchModal["A"]
    /\ matchedUserName["A"] = "B"
    /\ [swiper |-> "B", swiped |-> "A", action |-> "like"] \in swipes

\* C7: a checkForMatch read misses a reciprocal like that was already written only
\* when reads may lag; with lagging reads there is an interleaving (C7_Witness) in
\* which A and B have each recorded a like on the other, both handleSwipe calls
\* have finished, and no check has ever seen a like, so neither gets the modal.
C7_MissOnlyUnderLag ==
    \A e \in checkLog : (e.written /\ ~e.saw) => consistency = "lagging"

C7_Witness ==
    /\ consistency = "lagging"
    /\ [swiper |-> "A", swiped |-> "B", action |-> "like"] \in swipes
    /\ [swiper |-> "B", swiped |-> "A", action |-> "like"] \in swipes
    /\ \A u \in Viewers :
         /\ swipeFlows[u] = EmptyBag
         /\ candQuery[u].inFlight = 0
         /\ ~showMatchModal[u]
         /\ \E e \in checkLog : e.viewer = u /\ ~e.saw
         /\ \A i \in (currentIndex[u] + 1)..Len(profiles[u]) :
              profiles[u][i] \notin Viewers
    /\ \A e \in checkLog : ~e.saw

\* C8 as stated: each swipe and each save on a card that is not the last loaded
\* one advances currentIndex by exactly one.
C8_SwipeAndSaveAdvance ==
    [][\A u \in Viewers :
         ((SwipeClicked(u) \/ SaveClicked(u)) /\ ~OnLastCard(u))
         => currentIndex'[u] = currentIndex[u] + 1]_vars

\* C8 amended: each swipe on a card that is not the last loaded one advances
\* currentIndex by exactly one; a save leaves currentIndex and the loaded
\* profiles unchanged and sends no candidates request.
C8_SwipeAdvancesSaveStays ==
    [][\A u \in Viewers :
         /\ (SwipeClicked(u) /\ ~OnLastCard(u))
            => currentIndex'[u] = currentIndex[u] + 1
         /\ SaveClicked(u)
            => /\ currentIndex'[u] = currentIndex[u]
               /\ profiles'[u] = profiles[u]
               /\ candQuery'[u] = candQuery[u]]_vars

C8_Witness ==
    /\ nSaves["A"] = 1
    /\ nSwipes["A"] = 1
    /\ currentIndex["A"] = 1
    /\ Len(profiles["A"]) = 2
    /\ saveFlows["A"] # EmptyBag

\* C9: while sendingMessage is true the message input and the Send button are both
\* disabled, a step taken while it is true makes no sendMessage call, and so at most
\* one send is in flight at any time, which keeps sendingMessage true until it resolves.
C9_NoSecondSendWhileSending ==
    /\ [](/\ sendingMessage => /\ InputDisabled(sendingMessage)
                               /\ SendButtonDisabled(sendingMessage, newMessageContent)
          /\ sendsInFlight # {} => sendingMessage
          /\ Cardinality(sendsInFlight) <= 1)
    /\ [][sendingMessage => nSends' = nSends]_vars

\* C9's case: a send is in flight while the input still holds sendable text.
C9_Witness ==
    /\ sendingMessage
    /\ sendsInFlight # {}
    /\ Trim(newMessageContent) # ""

\* C10: a step in which onData handles a subscription payload leaves the displayed
\* message list, the query (its data and its requests), the optimistic layer, the
\* component state, the sends in flight and the remote rows as they were.
C10_OnDataChangesNothing ==
    [][subPushes' = subPushes + 1 =>
          /\ Messages' = Messages
          /\ messagesQuery' = messagesQuery
          /\ optimistic' = optimistic
          /\ newMessageContent' = newMessageContent
          /\ sendingMessage' = sendingMessage
          /\ sendsInFlight' = sendsInFlight
          /\ nSends' = nSends
          /\ markReadCalls' = markReadCalls
          /\ markPending' = markPending
          /\ serverMessages' = serverMessages]_vars

\* C10's case: onData has logged a payload that held a message the list does not show.
C10_Witness ==
    /\ subPushes > 0
    /\ messagesQuery.data # NoData
    /\ Len(consoleLog) = 2
    /\ \E i \in 1..Len(consoleLog[2]) :
          ~\E j \in 1..Len(Messages) : Messages[j].id = consoleLog[2][i].id

Ordered(s) == \A i \in 1..(Len(s) - 1) : s[i].at <= s[i + 1].at
OnlyConversation(s) == \A i \in 1..Len(s) : InConversation(s[i], Me, Peer)
IsEcho(m) == m.id > 100

\* C11: the rows of the rendered list that came from the remote schema (the initial
\* fetch and the send results appended by the cache update; pending echoes, stamped by
\* the client's clock, set aside) are in non-decreasing created_at order, and the
\* list holds only messages between the current user and the target user.
C11_FetchedRowsOrderedAndPairOnly ==
    /\ Ordered(SelectSeq(Messages, LAMBDA m : ~IsEcho(m)))
    /\ OnlyConversation(Messages)

\* C12: while a send is in flight its echo is in the rendered list, and a step in
\* which a send succeeds leaves the returned row exactly once in the rendered list
\* and the input cleared.
C12_EchoThenExactlyOnce ==
    /\ [](\A f \in sendsInFlight :
            \E i \in 1..Len(Messages) : Messages[i].id = 100 + f.id)
    /\ [][\A f \in sendsInFlight :
            (/\ \A g \in sendsInFlight' : g.id # f.id
             /\ alerts' = alerts)
            => /\ Cardinality({i \in 1..Len(Messages') :
                                 Messages'[i].id = f.row[1].id}) = 1
               /\ newMessageContent' = ""]_vars

\* C13: the mount issues a MarkConversationAsRead call, every step that changes the
\* fetched message data (the query data or its optimistic layer) issues one more,
\* and every call made carries senderId = target user, currentUserId = current user.
C13_MarkAsReadOnMountAndChange ==
    /\ MarkAsReadVariables(Peer, Me) \in markReadCalls
    /\ [](markReadCalls = {[senderId |-> Peer, currentUserId |-> Me]})
    /\ [][(messagesQuery'.data # messagesQuery.data \/ optimistic' # optimistic)
          => /\ markPending' = markPending + 1
             /\ [senderId |-> Peer, currentUserId |-> Me] \in markReadCalls']_vars

\* C13's case: the fetched list has arrived with a message of the target user and the
\* call issued for it has been applied remotely.
C13_Witness ==
    /\ messagesQuery.data # NoData
    /\ \E i \in 1..Len(Messages) : Messages[i].sender = Peer
    /\ \E i \in 1..Len(serverMessages) :
         serverMessages[i].sender = Peer /\ serverMessages[i].is_read
    /\ markPending >= 1

(***************************************************************************)
(* Properties of the settings page (SpecSettings)                          *)
(***************************************************************************)

\* C14: every upsertProfile call made for a submit with a new avatar file carries the
\* public URL of the file that submit's upload stored, and that file is in storage
\* when the call is made; a step in which an upload fails makes no upsertProfile
\* call and leaves isUploadingAvatar false.
C14_UpsertAfterUploadWithItsUrl ==
    /\ [](\A i \in 1..Len(upsertLog) :
            upsertLog[i].file # NoFile
            => /\ upsertLog[i].fileId \in storage
               /\ upsertLog[i].avatarUrl = PublicUrl(upsertLog[i].fileId))
    /\ [][(\E f \in settingsFlows :
             f.pc = "upload" /\ (\A g \in settingsFlows' : g.id # f.id))
          => /\ upsertLog' = upsertLog
             /\ ~isUploadingAvatar']_vars

\* C14's case: one submit with a file has uploaded and upserted, another has failed
\* its upload.
C14_Witness ==
    /\ \E i \in 1..Len(upsertLog) :
         /\ upsertLog[i].file # NoFile
         /\ upsertLog[i].avatarUrl # PublicUrl(0)
    /\ settingsAlert = "Error uploading avatar"
    /\ nSubmits = 2
    /\ Len(upsertLog) = 1

(***************************************************************************)
(* Properties of the post form (SpecPost)                                  *)
(***************************************************************************)

\* C15: every createPost call is made when each image and the video its submit held
\* is in storage, and carries exactly the public URLs of those stored files, images
\* in the order selected; a step in which an upload fails makes no createPost call,
\* creates no post, keeps the form's text and files and leaves isUploading false.
C15_CreateAfterAllUploads ==
    /\ [](\A n \in 1..Len(createLog) :
            LET e == createLog[n]
                queue == UploadQueue(e.images, e.video)
            IN  /\ Len(e.ids) = Len(queue)
                /\ \A k \in 1..Len(queue) :
                     [id |-> e.ids[k], file |-> queue[k]] \in postStorage
                /\ e.call.imageUrls =
                     UrlsOrNull([k \in 1..Len(e.images) |-> PublicUrl(e.ids[k])])
                /\ e.call.videoUrl =
                     IF e.video # NoFile THEN <<PublicUrl(e.ids[Len(queue)])>> ELSE <<>>)
    /\ [][(\E f \in postFlows :
             f.pc = "upload" /\ (\A g \in postFlows' : g.id # f.id))
          => /\ createLog' = createLog
             /\ serverPosts' = serverPosts
             /\ contentText' = contentText
             /\ imageFiles' = imageFiles
             /\ videoFile' = videoFile
             /\ ~isUploading']_vars

\* C15's case: a post with two images and a video has been created.
C15_Witness ==
    /\ Len(createLog) = 1
    /\ Len(createLog[1].images) = 2
    /\ createLog[1].video # NoFile
    /\ Len(serverPosts) = 1
    /\ serverPosts[1].imageUrls # <<>>
    /\ serverPosts[1].videoUrl # <<>>

(***************************************************************************)
(* Error handling at the call sites                                        *)
(***************************************************************************)

\* C16: every failed remote mutation raises an alert dialog; on the swipe page, a
\* step in which the recordSwipe mutation or the save/unsave mutation fails raises
\* one.
C16_FailedMutationAlerts ==
    [][\A u \in Viewers :
         (\/ ~swipeErrors[u].recordSwipe /\ swipeErrors'[u].recordSwipe
          \/ ~swipeErrors[u].save /\ swipeErrors'[u].save)
         => alerts' = alerts + 1]_vars

(***************************************************************************)
(* Properties of the feed page (SpecFeed)                                  *)
(***************************************************************************)

\* What the page shows of each list
NewsState == <<newsArticles, newsLoading, newsError>>
PostsState == <<Posts, postsQuery.loading, postsQuery.error>>

\* A posts request (the query, a refetch or a fetchMore) fails in this step
PostsRequestFails ==
    \E r \in feedRequests : PostsQueryFails(r) \/ FetchMoreFails(r)

\* C17: the news list and the post list are independent: a step in which the news
\* fetch starts, is answered or fails, and every step taken while it is awaited
\* that touches the news state, leaves the post list, postsLoading and postsError
\* as they were; a step in which the posts query or a loadMorePosts request fails
\* leaves newsArticles, newsLoading and newsError as they were.
C17_NewsAndPostsIndependent ==
    [][/\ (NewsState' # NewsState \/ newsFetch' # newsFetch) => PostsState' = PostsState
       /\ PostsRequestFails => NewsState' = NewsState]_vars

\* C17's case: the news fetch has failed and a posts request has failed, with one
\* page of posts on screen.
C17_Witness ==
    /\ newsError = "failed"
    /\ postsQuery.error
    /\ Len(Posts) = PageLimit

\* fetchMore requests in flight
FetchMoresInFlight == {r \in feedRequests : r.kind = "fetchMore"}

IsPrefix(s, t) == Len(s) <= Len(t) /\ \A i \in 1..Len(s) : t[i] = s[i]

\* C18: a loadMorePosts call that issues a request asks for the page at the offset
\* equal to the number of posts loaded, and issues it only when no load-more is in
\* flight and the posts query is not loading; the answer to a fetchMore keeps the
\* posts already loaded in place and puts the fetched ones after them; at most one
\* fetchMore is in flight at any time.
C18_LoadMoreOffsetAppendAndSingle ==
    /\ [](Cardinality(FetchMoresInFlight) <= 1)
    /\ [][/\ FetchMoresInFlight' # FetchMoresInFlight /\ FetchMoresInFlight' # {}
             => /\ \A r \in FetchMoresInFlight' : r.offset = Len(Posts)
                /\ ~isLoadingMorePosts
                /\ ~postsQuery.loading
                /\ FetchMoresInFlight = {}
          /\ (\E r \in feedRequests : FetchMoreArrives(r))
             => /\ IsPrefix(Posts, Posts')
                /\ \E r \in FetchMoresInFlight :
                     Posts' = Posts \o FeedPage(feedCount, PageLimit, r.offset)]_vars

\* C18's case: a second page was requested at offset 10 and its posts were
\* appended to the ten already loaded.
C18_Witness ==
    /\ fetchMoreLog # <<>>
    /\ fetchMoreLog[1].offset = PageLimit
    /\ Len(Posts) = 2 * PageLimit
    /\ feedRequests = {}

(***************************************************************************)
(* Concurrent use of the swipe page (SpecMatch, SpecSwipe)                 *)
(***************************************************************************)

\* The checkForMatch reads completed by viewer u for the swiped user t
ChecksOf(u, t) == {e \in checkLog : e.viewer = u /\ e.target = t}

\* C23: when every completed swipe write is visible to the reads made after it,
\* and A has liked B and B has liked A, and both handleSwipe calls have run to the
\* end of their match check without an error, the match modal was opened for at
\* least one of the two.
C23_OneSideSeesTheMatch ==
    (/\ consistency = "strong"
     /\ ChecksOf("A", "B") # {}
     /\ ChecksOf("B", "A") # {})
      => \E e \in ChecksOf("A", "B") \cup ChecksOf("B", "A") : e.modal

\* C23's case: both have liked the other and completed their checks; A's check ran
\* before B's like was written and opened nothing, B's opened the modal.
C23_Witness ==
    /\ consistency = "strong"
    /\ \E e \in ChecksOf("A", "B") : ~e.modal
    /\ \E e \in ChecksOf("B", "A") : e.modal
    /\ swipeFlows = [u \in Viewers |-> EmptyBag]

\* C24: within one session of the page a viewer issues at most one RecordSwipe
\* mutation per swiped user: a handleSwipe call is never made for a user already
\* swiped since the page was mounted.
C24_OneRecordSwipePerUser ==
    [][\A u \in Viewers :
         nSwipes'[u] = nSwipes[u] + 1 => CurrentProfile(u) \notin sessionSwiped[u]]_vars

\* Nothing of viewer u's save handling is in flight
SavesAtRest(u) == saveFlows[u] = EmptyBag /\ savedFetches[u] = 0

C25_NoPostTwice ==
    \A i, j \in 1..Len(Posts) : Posts[i] = Posts[j] => i = j

(***************************************************************************)
(* Properties of the dashboard (SpecDash)                                  *)
(***************************************************************************)

ChatTargetSet == Truthy(chatTargetUserId) /\ Truthy(chatTargetUserName)
ChatTargetCleared == chatTargetUserId = Null /\ chatTargetUserName = Null

\* C27: whenever activeView is 'individualChat' the chat target's id and
\* name are both set; a step that selects a sidebar view or goes back to
\* the chat list leaves both cleared; IndividualChatPage is rendered only
\* while both are set.
C27_ChatTargetSetInIndividualChat ==
    /\ [](activeView = "individualChat" => ChatTargetSet)
    /\ [](RenderActiveView = "IndividualChatPage" => ChatTargetSet)
    /\ [][(\/ \E view \in SidebarViews : HandleSetActiveView(view)
           \/ HandleBackToChatList) => ChatTargetCleared']_vars

\* An individual chat is open with a user who has neither a username nor a
\* display name, so that the name shown is the user's id
C27_Witness ==
    /\ activeView = "individualChat"
    /\ RenderActiveView = "IndividualChatPage"
    /\ chatTargetUserName = chatTargetUserId

(***************************************************************************)
(* The profile query of the settings page (SpecSettingsFair)               *)
(***************************************************************************)

\* C28: once GET_MY_PROFILE_FOR_EDIT has completed with an empty profiles
\* list, the section eventually shows 'Could not find your profile data.'
\* in place of 'Loading profile...'.
C28_EmptyProfileLeavesLoading ==
    (settingsProfile = "empty")
        ~> (ProfileSectionRender = "Could not find your profile data.")

(***************************************************************************)
(* The username suggestion of the setup page (SpecSetupForm)               *)
(***************************************************************************)

\* C29: the suggestion effect fills the username at most once per visit:
\* once it has set a suggestion, no later edit of the field, clearing it
\* included, makes the effect write the username again.
C29_SuggestionAtMostOnce == nSuggestions <= 1

(***************************************************************************)
(* The image files of the post form (SpecPostImages)                       *)
(***************************************************************************)

\* C30: the form never holds more than 5 image files, whatever selections
\* (of one or several files) and removals are made.
C30_AtMostFiveImages == Len(imageFiles) <= MaxImagesAllowed

====
